---- MODULE Spec2Model ----
(***************************************************************************)
(* A model of clang/lib/CIR/CodeGen/CIRGenCall.cpp: the Signature Arranger *)
(* (the arrangers), the machine function type construction                *)
(* (GetFunctionType),                                                      *)
(* the Attribute Synthesizer (constructAttributeList) and the Call Emitter *)
(* (emitCall, emitCallLikeOp).                                             *)
(*                                                                         *)
(* A failed assert, llvm_unreachable and "NYI" are modelled as a fault: the *)
(* operation stops there, names the fault and yields nothing else.         *)
(***************************************************************************)
EXTENDS Integers, Sequences, FiniteSets, TLC

VARIABLES
    request,                 \* the operation last requested, with its inputs
    arranged,                \* its outcome when it is an arranger: fault + descriptors
    FunctionInfos,           \* CIRGenTypes::FunctionInfos, the descriptors created so far
    FunctionsBeingProcessed, \* CIRGenTypes::FunctionsBeingProcessed
    stack,                   \* active GetFunctionType invocations, innermost last
    lowered,                 \* outcome of the last top-level GetFunctionType
    mayThrow,                \* CIRGenFunction::mayThrow
    callWithExceptionCtx,    \* CIRGenFunction::callWithExceptionCtx
    emitted,                 \* outcome of the last emitCall
    callArgs                 \* the CallArgList emitCallArgs built, or its fault

vars == <<request, arranged, FunctionInfos, FunctionsBeingProcessed, stack,
          lowered, mayThrow, callWithExceptionCtx, emitted, callArgs>>

(***************************************************************************)
(* Bounds of the model.                                                    *)
(***************************************************************************)
MaxParams == 2
MaxExtraArgs == 1
MaxDepth == 4

NoFault == "none"

(***************************************************************************)
(* Sequences of length at most n over S.                                   *)
(***************************************************************************)
SeqsUpTo(S, n) == UNION {[1..k -> S] : k \in 0..n}

(***************************************************************************)
(* RequiredArgs: the number of required arguments, or ~0U when the         *)
(* signature does not permit optional arguments.  ~0U is written as the    *)
(* 32-bit two's complement reading of its bit pattern.                     *)
(***************************************************************************)
RequiredArgs_All == -1

allowsOptionalArgs(required) == required # RequiredArgs_All

(***************************************************************************)
(* FunctionProtoType::ExtParameterInfo; the default-constructed one has no *)
(* flag set.                                                               *)
(***************************************************************************)
DefaultExtParameterInfo == [PassObjectSize |-> FALSE]
PassObjectSizeInfo == [PassObjectSize |-> TRUE]

hasPassObjectSize(info) == info.PassObjectSize

RECURSIVE CountPassObjectSize(_)
CountPassObjectSize(infos) ==
    IF infos = <<>> THEN 0
    ELSE (IF hasPassObjectSize(Head(infos)) THEN 1 ELSE 0)
         + CountPassObjectSize(Tail(infos))

(* RequiredArgs::forPrototypePlus: the formal parameters, the additional   *)
(* non-formal arguments in play and the pass_object_size companions.       *)
forPrototypePlus(prototype, additional) ==
    IF ~prototype.Variadic THEN RequiredArgs_All
    ELSE Len(prototype.ParamTypes) + additional
         + (IF prototype.HasExtParameterInfos
            THEN CountPassObjectSize(prototype.ExtParameterInfos)
            ELSE 0)

(* ASTContext::getSizeType *)
SizeType == "size_t"

(* The conversion of the AST calling convention to the CIR one. *)
ClangCallConvToCIRCallConv(cc) ==
    IF cc = "CC_OpenCLKernel" THEN "SpirKernel" ELSE "C"

(***************************************************************************)
(* CIRGenFunctionInfo::create.  A violation of either assertion is a fault *)
(* and no descriptor is built.                                             *)
(***************************************************************************)
Faulted(why) == [fault |-> why, FIs |-> {}]

(* The fields create assigns. *)
NewFunctionInfo(cirCC, instanceMethod, chainCall, info, paramInfos, resultType, argTypes, required) ==
    [CallingConvention |-> cirCC,
     EffectiveCallingConvention |-> cirCC,
     ASTCallingConvention |-> info.CC,
     InstanceMethod |-> instanceMethod,
     ChainCall |-> chainCall,
     Required |-> required,
     ArgRecord |-> FALSE,
     NumArgs |-> Len(argTypes),
     HasExtParameterInfos |-> paramInfos # <<>>,
     ReturnType |-> resultType,
     ArgTypes |-> argTypes,
     ExtParameterInfos |-> paramInfos]

create_noParamInfosAssert(cirCC, instanceMethod, chainCall, info, paramInfos, resultType, argTypes, required) ==
    IF allowsOptionalArgs(required) /\ ~(required <= Len(argTypes))
    THEN Faulted("assert: required <= argTypes.size()")
    ELSE [fault |-> NoFault,
          FIs |-> {NewFunctionInfo(cirCC, instanceMethod, chainCall, info,
                                   paramInfos, resultType, argTypes, required)}]

create_noRequiredAssert(cirCC, instanceMethod, chainCall, info, paramInfos, resultType, argTypes, required) ==
    IF ~(paramInfos = <<>> \/ Len(paramInfos) = Len(argTypes))
    THEN Faulted("assert: paramInfos.empty() || size == argTypes.size()")
    ELSE [fault |-> NoFault,
          FIs |-> {NewFunctionInfo(cirCC, instanceMethod, chainCall, info,
                                   paramInfos, resultType, argTypes, required)}]

create(cirCC, instanceMethod, chainCall, info, paramInfos, resultType, argTypes, required) ==
    IF ~(paramInfos = <<>> \/ Len(paramInfos) = Len(argTypes))
    THEN Faulted("assert: paramInfos.empty() || size == argTypes.size()")
    ELSE IF allowsOptionalArgs(required) /\ ~(required <= Len(argTypes))
    THEN Faulted("assert: required <= argTypes.size()")
    ELSE [fault |-> NoFault,
          FIs |-> {NewFunctionInfo(cirCC, instanceMethod, chainCall, info,
                                   paramInfos, resultType, argTypes, required)}]

(* CIRGenFunctionInfo accessors. *)
isVariadic(FI) == allowsOptionalArgs(FI.Required)

getNumRequiredArgs(FI) == IF isVariadic(FI) THEN FI.Required ELSE FI.NumArgs

requiredArguments(FI) == SubSeq(FI.ArgTypes, 1, getNumRequiredArgs(FI))

(***************************************************************************)
(* CIRGenTypes::arrangeCIRFunctionInfo (the member): the descriptor for a  *)
(* signature is built by the factory, once per structural key, so a        *)
(* descriptor is identified by its contents.                               *)
(***************************************************************************)
arrangeCIRFunctionInfo(resultType, opts, argTypes, info, paramInfos, required) ==
    create(ClangCallConvToCIRCallConv(info.CC), opts = "IsInstanceMethod",
           opts = "IsChainCall", info, paramInfos, resultType, argTypes,
           required)

(***************************************************************************)
(* The Signature Arranger.                                                 *)
(***************************************************************************)
PadTo(infos, n) ==
    infos \o [i \in 1..(n - Len(infos)) |-> DefaultExtParameterInfo]

(* The prototype's infos, each pass_object_size one followed by a default  *)
(* info for its size argument.                                             *)
RECURSIVE ProtoInfosForCall(_)
ProtoInfosForCall(infos) ==
    IF infos = <<>> THEN <<>>
    ELSE (IF hasPassObjectSize(Head(infos))
          THEN <<Head(infos), DefaultExtParameterInfo>>
          ELSE <<Head(infos)>>) \o ProtoInfosForCall(Tail(infos))

addExtParameterInfosForCall(paramInfos, proto, prefixArgs, totalArgs) ==
    IF ~proto.HasExtParameterInfos
    THEN [fault |-> "assert: proto->hasExtParameterInfos()", paramInfos |-> <<>>]
    ELSE IF ~(Len(paramInfos) <= prefixArgs)
    THEN [fault |-> "assert: paramInfos.size() <= prefixArgs", paramInfos |-> <<>>]
    ELSE IF ~(Len(proto.ParamTypes) + prefixArgs <= totalArgs)
    THEN [fault |-> "assert: getNumParams() + prefixArgs <= totalArgs",
          paramInfos |-> <<>>]
    ELSE LET pushed == PadTo(paramInfos, prefixArgs)
                       \o ProtoInfosForCall(proto.ExtParameterInfos)
         IN IF ~(Len(pushed) <= totalArgs)
            THEN [fault |-> "assert: forgot pass_object_size args",
                  paramInfos |-> <<>>]
            ELSE [fault |-> NoFault, paramInfos |-> PadTo(pushed, totalArgs)]

(* The formal parameter types, a size-typed one after each parameter that  *)
(* has pass_object_size.                                                   *)
RECURSIVE ParamTypesWithObjectSize(_, _)
ParamTypesWithObjectSize(types, infos) ==
    IF types = <<>> THEN <<>>
    ELSE (IF hasPassObjectSize(Head(infos))
          THEN <<Head(types), SizeType>>
          ELSE <<Head(types)>>)
         \o ParamTypesWithObjectSize(Tail(types), Tail(infos))

appendParameterTypes(prefix, paramInfos, FPT) ==
    IF ~FPT.HasExtParameterInfos
    THEN IF paramInfos # <<>>
         THEN [fault |-> "assert: paramInfos.empty()", prefix |-> prefix,
               paramInfos |-> paramInfos]
         ELSE [fault |-> NoFault, prefix |-> prefix \o FPT.ParamTypes,
               paramInfos |-> paramInfos]
    ELSE IF Len(FPT.ExtParameterInfos) # Len(FPT.ParamTypes)
    THEN [fault |-> "assert: ExtInfos.size() == getNumParams()",
          prefix |-> prefix, paramInfos |-> paramInfos]
    ELSE LET newPrefix == prefix \o ParamTypesWithObjectSize(FPT.ParamTypes,
                                                           FPT.ExtParameterInfos)
             r == addExtParameterInfosForCall(paramInfos, FPT, Len(prefix),
                                              Len(newPrefix))
         IN [fault |-> r.fault, prefix |-> newPrefix, paramInfos |-> r.paramInfos]

(* CIRGenTypes::DeriveThisType: a pointer to the class type, qualified by  *)
(* the method's address space and by nothing else of the method.           *)
DeriveThisType_withCV(RD, MD) ==
    IF MD.MethodQualifiers.AddressSpace = "Default"
    THEN "ptr<" \o (IF MD.MethodQualifiers.Const THEN "const " ELSE "") \o RD \o ">"
    ELSE "ptr<" \o MD.MethodQualifiers.AddressSpace \o " " \o RD \o ">"

DeriveThisType(RD, MD) ==
    IF MD.MethodQualifiers.AddressSpace = "Default"
    THEN "ptr<" \o RD \o ">"
    ELSE "ptr<" \o MD.MethodQualifiers.AddressSpace \o " " \o RD \o ">"

(* The static arrangeCIRFunctionInfo: a function type on top of the        *)
(* implicit parameters already in prefix.                                  *)
arrangeCIRFunctionInfoForType_noPrefix(instanceMethod, prefix, FTP) ==
    LET Required == forPrototypePlus(FTP, 0)
        app == appendParameterTypes(prefix, <<>>, FTP)
    IN IF app.fault # NoFault THEN Faulted(app.fault)
       ELSE arrangeCIRFunctionInfo(FTP.ReturnType, instanceMethod, app.prefix,
                                   [CC |-> FTP.CC], app.paramInfos, Required)

arrangeCIRFunctionInfoForType(instanceMethod, prefix, FTP) ==
    LET Required == forPrototypePlus(FTP, Len(prefix))
        app == appendParameterTypes(prefix, <<>>, FTP)
    IN IF app.fault # NoFault THEN Faulted(app.fault)
       ELSE arrangeCIRFunctionInfo(FTP.ReturnType, instanceMethod, app.prefix,
                                   [CC |-> FTP.CC], app.paramInfos, Required)

arrangeFreeFunctionType(FTP) ==
    arrangeCIRFunctionInfoForType("None", <<>>, FTP)

arrangeFreeFunctionTypeNoProto_allRequired(FTNP) ==
    arrangeCIRFunctionInfo(FTNP.ReturnType, "None", <<>>, [CC |-> FTNP.CC], <<>>,
                           RequiredArgs_All)

arrangeFreeFunctionTypeNoProto(FTNP) ==
    arrangeCIRFunctionInfo(FTNP.ReturnType, "None", <<>>, [CC |-> FTNP.CC], <<>>, 0)

arrangeCXXMethodType(RD, FTP, MD) ==
    arrangeCIRFunctionInfoForType("IsChainCall", <<DeriveThisType(RD, MD)>>, FTP)

(* The module being compiled, as far as the arranger reads it: what the    *)
(* target's hook TargetCIRGenInfo::setCUDAKernelCallingConvention does to  *)
(* the convention of a kernel's function type.  A target either leaves the *)
(* type as it is or gives it the kernel convention.                        *)
CGMWith(kernelCallingConv) == [KernelCallingConv |-> kernelCallingConv]

DefaultCGM == CGMWith("unchanged")

CGMs == {DefaultCGM, CGMWith("CC_OpenCLKernel")}

(* The static setCUDAKernelCallingConvention: the hook is asked for the    *)
(* declarations with the CUDA global attribute only.                       *)
setCUDAKernelCallingConvention(FTy, CGM, FD) ==
    IF FD.CUDAGlobalAttr /\ CGM.KernelCallingConv # "unchanged"
    THEN [FTy EXCEPT !.CC = CGM.KernelCallingConv]
    ELSE FTy

isCXXMethodDecl(FD) == FD.Kind \in {"Method", "Constructor", "Destructor"}

arrangeCXXMethodDeclaration(MD, CGM) ==
    IF MD.Kind # "Method" THEN Faulted("assert: wrong method for structors")
    ELSE LET prototype == setCUDAKernelCallingConvention(MD.Type, CGM, MD)
         IN IF MD.isInstance
            THEN arrangeCXXMethodType(MD.Parent, prototype, MD)
            ELSE arrangeFreeFunctionType(prototype)

arrangeFunctionDeclaration_unprototyped(FD, CGM) ==
    IF isCXXMethodDecl(FD) /\ FD.isInstance THEN arrangeCXXMethodDeclaration(FD, CGM)
    ELSE arrangeCIRFunctionInfo(FD.Type.ReturnType, "None", <<>>,
                                [CC |-> FD.Type.CC], <<>>, RequiredArgs_All)

arrangeFunctionDeclaration(FD, CGM) ==
    IF isCXXMethodDecl(FD) /\ FD.isInstance THEN arrangeCXXMethodDeclaration(FD, CGM)
    ELSE IF FD.Type.Kind = "NoProto"
    THEN arrangeCIRFunctionInfo(FD.Type.ReturnType, "None", <<>>,
                                [CC |-> FD.Type.CC], <<>>, RequiredArgs_All)
    ELSE arrangeFreeFunctionType(FD.Type)

(* CIRGenTypes::inheritingCtorHasParams *)
inheritingCtorHasParams_anyType(Inherited, Type, hasConstructorVariants) ==
    \/ Inherited # "ShadowConstructsVirtualBase"
    \/ ~hasConstructorVariants

inheritingCtorHasParams(Inherited, Type, hasConstructorVariants) ==
    \/ Type = "Ctor_Complete"
    \/ Inherited # "ShadowConstructsVirtualBase"
    \/ ~hasConstructorVariants

(* CIRGenCXXABI::buildStructorSignature: the ABI's arguments, the prefix   *)
(* ones after this and the suffix ones at the end.                         *)
buildStructorSignature(AddedArgs, argTypes) ==
    <<Head(argTypes)>> \o [i \in 1..AddedArgs.Prefix |-> "ptr<ptr<void>>"]
    \o Tail(argTypes) \o [i \in 1..AddedArgs.Suffix |-> "int"]

(* abi: what the C++ ABI object answers for this structor. *)
arrangeCXXStructorDeclaration(MD, CtorType, abi) ==
    LET this == <<DeriveThisType(MD.Parent, MD)>>
        PassParams ==
            IF MD.Kind = "Constructor" /\ MD.Inherited # "None"
            THEN inheritingCtorHasParams(MD.Inherited, CtorType,
                                         abi.hasConstructorVariants)
            ELSE TRUE
        FTP == MD.Type
        app == IF PassParams THEN appendParameterTypes(this, <<>>, FTP)
               ELSE [fault |-> NoFault, prefix |-> this, paramInfos |-> <<>>]
        argTypes == buildStructorSignature(abi.AddedArgs, app.prefix)
        required == IF PassParams /\ FTP.Variadic THEN Len(argTypes)
                    ELSE RequiredArgs_All
        resultType == IF abi.HasThisReturn THEN Head(argTypes)
                      ELSE IF abi.hasMostDerivedReturn THEN "ptr<void>"
                      ELSE "void"
    IN IF app.fault # NoFault THEN Faulted(app.fault)
       ELSE IF app.paramInfos # <<>>
       THEN Faulted("assert: structor with parameter infos")
       ELSE IF abi.HasThisReturn THEN Faulted("assert: !HasThisReturn")
       ELSE arrangeCIRFunctionInfo(resultType, "IsInstanceMethod", argTypes,
                                   [CC |-> FTP.CC], app.paramInfos, required)

ArgTys(args) == [i \in 1..Len(args) |-> args[i].Ty]

arrangeCXXConstructorCall(Args, D, CtorKind, ExtraPrefixArgs, ExtraSuffixArgs, PassProtoArgs, abi) ==
    LET ArgTypes == ArgTys(Args)
        TotalPrefixArgs == 1 + ExtraPrefixArgs
        FPT == D.Type
        Required == IF PassProtoArgs
                    THEN forPrototypePlus(FPT, TotalPrefixArgs + ExtraSuffixArgs)
                    ELSE RequiredArgs_All
    IN IF abi.HasThisReturn THEN Faulted("assert: ThisReturn NYI")
       ELSE IF abi.hasMostDerivedReturn
       THEN Faulted("assert: Most derived return NYI")
       ELSE IF FPT.HasExtParameterInfos
       THEN Faulted("assert: !hasExtParameterInfos NYI")
       ELSE arrangeCIRFunctionInfo("void", "IsInstanceMethod", ArgTypes,
                                   [CC |-> FPT.CC], <<>>, Required)

getExtParameterInfosForCall(proto, prefixArgs, totalArgs) ==
    IF proto.HasExtParameterInfos
    THEN [fault |-> "NYI: getExtParameterInfosForCall", paramInfos |-> <<>>]
    ELSE [fault |-> NoFault, paramInfos |-> <<>>]

arrangeCXXMethodCall(args, proto, required, numPrefixArgs) ==
    IF ~(numPrefixArgs + 1 <= Len(args))
    THEN Faulted("assert: less args than the required prefix")
    ELSE LET r == getExtParameterInfosForCall(proto, numPrefixArgs + 1, Len(args))
         IN IF r.fault # NoFault THEN Faulted(r.fault)
            ELSE arrangeCIRFunctionInfo(proto.ReturnType, "IsInstanceMethod",
                                        ArgTys(args), [CC |-> proto.CC],
                                        r.paramInfos, required)

arrangeFreeFunctionLikeCall(args, fnType, numExtraRequiredArgs, chainCall) ==
    IF ~(Len(args) >= numExtraRequiredArgs)
    THEN Faulted("assert: args.size() >= numExtraRequiredArgs")
    ELSE IF chainCall = "IsChainCall" THEN Faulted("assert: Chain call NYI")
    ELSE LET required ==
                 IF fnType.Kind = "Proto"
                 THEN IF fnType.Variadic
                      THEN forPrototypePlus(fnType, numExtraRequiredArgs)
                      ELSE RequiredArgs_All
                 ELSE Len(args)
             r == IF fnType.Kind = "Proto" /\ fnType.HasExtParameterInfos
                  THEN addExtParameterInfosForCall(<<>>, fnType,
                                                   numExtraRequiredArgs, Len(args))
                  ELSE [fault |-> NoFault, paramInfos |-> <<>>]
         IN IF r.fault # NoFault THEN Faulted(r.fault)
            ELSE arrangeCIRFunctionInfo(fnType.ReturnType, chainCall,
                                        ArgTys(args), [CC |-> fnType.CC],
                                        r.paramInfos, required)

arrangeFreeFunctionCall(args, fnType, ChainCall) ==
    IF ChainCall THEN Faulted("assert: ChainCall NYI")
    ELSE arrangeFreeFunctionLikeCall(args, fnType, IF ChainCall THEN 1 ELSE 0,
                                     IF ChainCall THEN "IsChainCall" ELSE "None")

(***************************************************************************)
(* The inputs of the arrangers: function types, declarations and the       *)
(* argument lists of calls.                                                *)
(***************************************************************************)
ParamTys == {"int", "ptr<char>"}
RetTys == {"void", "int"}
ExtraArgTys == {"int", "double"}

ExtParameterInfoKinds == {DefaultExtParameterInfo, PassObjectSizeInfo}

(* The parameter lists, without extended parameter infos or with one per   *)
(* parameter.                                                              *)
ParamLists ==
    UNION {{<<q, <<>>>>} \cup {<<q, f>> : f \in [1..Len(q) -> ExtParameterInfoKinds] \ {<<>>}} :
           q \in SeqsUpTo(ParamTys, MaxParams)}

ProtosReturning(rets) ==
    {[Kind |-> "Proto", ReturnType |-> r, ParamTypes |-> pl[1], Variadic |-> v,
      CC |-> "CC_C", HasExtParameterInfos |-> pl[2] # <<>>,
      ExtParameterInfos |-> pl[2]] :
        r \in rets, v \in BOOLEAN, pl \in ParamLists}

Protos == ProtosReturning(RetTys)

NoProtos ==
    {[Kind |-> "NoProto", ReturnType |-> r, ParamTypes |-> <<>>,
      Variadic |-> FALSE, CC |-> "CC_C", HasExtParameterInfos |-> FALSE,
      ExtParameterInfos |-> <<>>] : r \in RetTys}

MethodQualifierSets ==
    {[AddressSpace |-> "Default", Const |-> FALSE],
     [AddressSpace |-> "Default", Const |-> TRUE],
     [AddressSpace |-> "as1", Const |-> FALSE]}

FreeFunctionDecls ==
    {[Kind |-> "Function", Type |-> t, isInstance |-> FALSE, Parent |-> "",
      MethodQualifiers |-> [AddressSpace |-> "Default", Const |-> FALSE],
      CUDAGlobalAttr |-> k, Inherited |-> "None"] :
        t \in Protos \cup NoProtos, k \in BOOLEAN}

MethodDecls ==
    {[Kind |-> "Method", Type |-> t, isInstance |-> i, Parent |-> "C",
      MethodQualifiers |-> q, CUDAGlobalAttr |-> k, Inherited |-> "None"] :
        t \in Protos, i \in BOOLEAN, k \in BOOLEAN,
        q \in MethodQualifierSets}

StructorDecls ==
    {[Kind |-> kd[1], Type |-> t, isInstance |-> TRUE, Parent |-> "C",
      MethodQualifiers |-> [AddressSpace |-> "Default", Const |-> FALSE],
      CUDAGlobalAttr |-> FALSE, Inherited |-> kd[2]] :
        t \in ProtosReturning({"void"}),
        kd \in {<<"Constructor", "None">>,
                <<"Constructor", "ShadowNoVirtualBase">>,
                <<"Constructor", "ShadowConstructsVirtualBase">>,
                <<"Destructor", "None">>}}

CXXABIs ==
    {[hasConstructorVariants |-> v, AddedArgs |-> a, HasThisReturn |-> r[1],
      hasMostDerivedReturn |-> r[2]] :
        v \in BOOLEAN,
        a \in {[Prefix |-> 0, Suffix |-> 0], [Prefix |-> 1, Suffix |-> 0],
               [Prefix |-> 0, Suffix |-> 1]},
        r \in {<<FALSE, FALSE>>, <<TRUE, FALSE>>, <<FALSE, TRUE>>}}

AsArgs(tys) == [i \in 1..Len(tys) |-> [Ty |-> tys[i]]]

(* The argument lists emitCallArgs builds for a call of fnType: the        *)
(* parameters, a size argument after each pass_object_size one, and the    *)
(* arguments a variadic or unprototyped callee is passed beyond them.      *)
CallArgsFor(prefix, fnType, suffix) ==
    {AsArgs(prefix
            \o (IF fnType.HasExtParameterInfos
                THEN ParamTypesWithObjectSize(fnType.ParamTypes,
                                              fnType.ExtParameterInfos)
                ELSE fnType.ParamTypes)
            \o extra \o suffix) :
        extra \in IF fnType.Variadic \/ fnType.Kind = "NoProto"
                  THEN SeqsUpTo(ExtraArgTys, MaxExtraArgs) ELSE {<<>>}}

RequiredChoices == {RequiredArgs_All} \cup 0..(MaxParams + MaxExtraArgs + 1)

ExtParameterInfoSeqs ==
    SeqsUpTo(ExtParameterInfoKinds, MaxParams)

(***************************************************************************)
(* State.                                                                  *)
(***************************************************************************)
NoneArranged == [fault |-> NoFault, FIs |-> {}]
NoneLowered == [fault |-> NoFault, types |-> {}]
NoneEmitted == [status |-> "none"]
NoneCallArgs == [fault |-> NoFault, args |-> <<>>]

Init ==
    /\ request = [op |-> "none"]
    /\ arranged = NoneArranged
    /\ FunctionInfos = {}
    /\ FunctionsBeingProcessed = {}
    /\ stack = <<>>
    /\ lowered = NoneLowered
    /\ mayThrow = FALSE
    /\ callWithExceptionCtx = "null"
    /\ emitted = NoneEmitted
    /\ callArgs = NoneCallArgs

Idle == request.op = "none"

(* The outcome of an operation has been taken; the next one may start.     *)
(* The descriptors created so far stay in the table.                       *)
Retire ==
    /\ ~Idle
    /\ stack = <<>>
    /\ lowered.fault = NoFault
    /\ request' = [op |-> "none"]
    /\ arranged' = NoneArranged
    /\ lowered' = NoneLowered
    /\ emitted' = NoneEmitted
    /\ callArgs' = NoneCallArgs
    /\ UNCHANGED <<FunctionInfos, FunctionsBeingProcessed, stack, mayThrow,
                   callWithExceptionCtx>>

(* An arrangement of a signature the table has no descriptor for: the      *)
(* descriptor is created.  ArrangeInTable below follows the table.         *)
Arrange(req, result) ==
    /\ request' = req
    /\ arranged' = result
    /\ UNCHANGED <<FunctionInfos, FunctionsBeingProcessed, stack, lowered,
                   mayThrow, callWithExceptionCtx, emitted, callArgs>>

ArrangeFreeFunctionType ==
    /\ Idle
    /\ \E FTP \in Protos :
           Arrange([op |-> "arrangeFreeFunctionType", type |-> FTP],
                   arrangeFreeFunctionType(FTP))

ArrangeFreeFunctionTypeNoProto ==
    /\ Idle
    /\ \E FTNP \in NoProtos :
           Arrange([op |-> "arrangeFreeFunctionType", type |-> FTNP],
                   arrangeFreeFunctionTypeNoProto(FTNP))

ArrangeFunctionDeclaration ==
    /\ Idle
    /\ \E FD \in FreeFunctionDecls \cup MethodDecls, CGM \in CGMs :
           Arrange([op |-> "arrangeFunctionDeclaration", decl |-> FD, CGM |-> CGM],
                   arrangeFunctionDeclaration(FD, CGM))

ArrangeCXXMethodDeclaration ==
    /\ Idle
    /\ \E MD \in MethodDecls, CGM \in CGMs :
           Arrange([op |-> "arrangeCXXMethodDeclaration", decl |-> MD, CGM |-> CGM],
                   arrangeCXXMethodDeclaration(MD, CGM))

ArrangeCXXMethodType ==
    /\ Idle
    /\ \E MD \in {d \in MethodDecls : d.isInstance /\ ~d.CUDAGlobalAttr} :
           Arrange([op |-> "arrangeCXXMethodType", decl |-> MD],
                   arrangeCXXMethodType(MD.Parent, MD.Type, MD))

ArrangeCXXStructorDeclaration ==
    /\ Idle
    /\ \E MD \in StructorDecls, CtorType \in {"Ctor_Complete", "Ctor_Base"},
          abi \in CXXABIs :
           Arrange([op |-> "arrangeCXXStructorDeclaration", decl |-> MD,
                    ctorType |-> CtorType, abi |-> abi],
                   arrangeCXXStructorDeclaration(MD, CtorType, abi))

ArrangeCXXConstructorCall ==
    /\ Idle
    /\ \E D \in {d \in StructorDecls : d.Kind = "Constructor" /\ d.Inherited = "None"},
          abi \in {a \in CXXABIs : a.hasConstructorVariants},
          PassProtoArgs \in BOOLEAN :
           \E Args \in IF PassProtoArgs
                       THEN CallArgsFor(
                                buildStructorSignature(
                                    [Prefix |-> abi.AddedArgs.Prefix, Suffix |-> 0],
                                    <<DeriveThisType(D.Parent, D)>>),
                                D.Type,
                                [i \in 1..abi.AddedArgs.Suffix |-> "int"])
                       ELSE {AsArgs(buildStructorSignature(
                                        abi.AddedArgs,
                                        <<DeriveThisType(D.Parent, D)>>))} :
               Arrange([op |-> "arrangeCXXConstructorCall", decl |-> D,
                        args |-> Args, abi |-> abi, PassProtoArgs |-> PassProtoArgs],
                       arrangeCXXConstructorCall(Args, D, "Ctor_Complete",
                                                 abi.AddedArgs.Prefix,
                                                 abi.AddedArgs.Suffix,
                                                 PassProtoArgs, abi))

ArrangeCXXMethodCall ==
    /\ Idle
    /\ \E MD \in {d \in MethodDecls : d.isInstance /\ ~d.CUDAGlobalAttr
                                      /\ ~d.MethodQualifiers.Const},
          required \in RequiredChoices, numPrefixArgs \in 0..1 :
           \E args \in CallArgsFor(<<DeriveThisType(MD.Parent, MD)>>
                                   \o [i \in 1..numPrefixArgs |-> "ptr<ptr<void>>"],
                                   MD.Type, <<>>) :
               Arrange([op |-> "arrangeCXXMethodCall", decl |-> MD, args |-> args,
                        required |-> required, numPrefixArgs |-> numPrefixArgs],
                       arrangeCXXMethodCall(args, MD.Type, required, numPrefixArgs))

ArrangeFreeFunctionCall ==
    /\ Idle
    /\ \E fnType \in Protos \cup NoProtos, ChainCall \in BOOLEAN :
           \E args \in CallArgsFor(<<>>, fnType, <<>>) :
               Arrange([op |-> "arrangeFreeFunctionCall", type |-> fnType,
                        args |-> args, ChainCall |-> ChainCall],
                       arrangeFreeFunctionCall(args, fnType, ChainCall))

(* A request made of the member arrangeCIRFunctionInfo by a caller outside *)
(* this file, with whatever it computed.                                   *)
ArrangeCIRFunctionInfo ==
    /\ Idle
    /\ \E resultType \in RetTys, opts \in {"None", "IsInstanceMethod", "IsChainCall"},
          argTypes \in SeqsUpTo(ParamTys, MaxParams),
          paramInfos \in ExtParameterInfoSeqs, required \in RequiredChoices :
           Arrange([op |-> "arrangeCIRFunctionInfo", resultType |-> resultType,
                    opts |-> opts, argTypes |-> argTypes, paramInfos |-> paramInfos,
                    required |-> required],
                   arrangeCIRFunctionInfo(resultType, opts, argTypes,
                                          [CC |-> "CC_C"], paramInfos, required))

NextArrange ==
    \/ ArrangeFreeFunctionType
    \/ ArrangeFreeFunctionTypeNoProto
    \/ ArrangeFunctionDeclaration
    \/ ArrangeCXXMethodDeclaration
    \/ ArrangeCXXMethodType
    \/ ArrangeCXXStructorDeclaration
    \/ ArrangeCXXConstructorCall
    \/ ArrangeCXXMethodCall
    \/ ArrangeFreeFunctionCall
    \/ ArrangeCIRFunctionInfo
    \/ Retire

SpecArrange == Init /\ [][NextArrange]_vars

(***************************************************************************)
(* The descriptor table.  An arrangement looks the signature up by its     *)
(* profile and creates a descriptor only when the table has none for it;   *)
(* the table lives as long as the compilation and never loses an entry.    *)
(***************************************************************************)
MaxFunctionInfos == 3

ProfileOf_noRequired(FI) ==
    [ASTCallingConvention |-> FI.ASTCallingConvention,
     InstanceMethod |-> FI.InstanceMethod, ChainCall |-> FI.ChainCall,
     HasExtParameterInfos |-> FI.HasExtParameterInfos,
     ExtParameterInfos |-> FI.ExtParameterInfos,
     ReturnType |-> FI.ReturnType, ArgTypes |-> FI.ArgTypes]

(* CIRGenFunctionInfo::Profile: what a descriptor is looked up by. *)
ProfileOf(FI) ==
    [ASTCallingConvention |-> FI.ASTCallingConvention,
     InstanceMethod |-> FI.InstanceMethod, ChainCall |-> FI.ChainCall,
     Required |-> FI.Required,
     HasExtParameterInfos |-> FI.HasExtParameterInfos,
     ExtParameterInfos |-> FI.ExtParameterInfos,
     ReturnType |-> FI.ReturnType, ArgTypes |-> FI.ArgTypes]

(* FunctionInfos.FindNodeOrInsertPos: the descriptor of the table with the *)
(* profile of the one the arranger would create, or else the created one.  *)
(* A signature whose creation faults was never inserted, so it is not      *)
(* found either.                                                           *)
FindNodeOrInsert(table, created) ==
    IF created.fault # NoFault THEN created
    ELSE LET found == {FI \in table :
                          \E c \in created.FIs : ProfileOf(FI) = ProfileOf(c)}
         IN IF found # {} THEN [fault |-> NoFault, FIs |-> found] ELSE created

(* The function types and declarations of one translation unit. *)
UnitTypes ==
    {t \in Protos \cup NoProtos :
        /\ t.ReturnType = "int"
        /\ t.ParamTypes \in {<<>>, <<"int">>}
        /\ ~t.HasExtParameterInfos}

UnitDecls ==
    {FD \in FreeFunctionDecls \cup MethodDecls :
        /\ FD.Type \in UnitTypes
        /\ FD.MethodQualifiers = [AddressSpace |-> "Default", Const |-> FALSE]}

(* What the arranger named by a request creates. *)
arrangeRequested(req) ==
    CASE req.op = "arrangeFreeFunctionType" ->
             IF req.type.Kind = "NoProto" THEN arrangeFreeFunctionTypeNoProto(req.type)
             ELSE arrangeFreeFunctionType(req.type)
      [] req.op = "arrangeFunctionDeclaration" ->
             arrangeFunctionDeclaration(req.decl, req.CGM)

ArrangeInTable(req) ==
    \E result \in {FindNodeOrInsert(FunctionInfos, arrangeRequested(req))} :
        /\ Cardinality(FunctionInfos \cup result.FIs) <= MaxFunctionInfos
        /\ request' = [req EXCEPT !.table = FunctionInfos]
        /\ arranged' = result
        /\ FunctionInfos' = FunctionInfos \cup result.FIs
        /\ UNCHANGED <<FunctionsBeingProcessed, stack, lowered, mayThrow,
                       callWithExceptionCtx, emitted, callArgs>>

ArrangeTypeInTable ==
    /\ Idle
    /\ \E FTP \in UnitTypes :
           ArrangeInTable([op |-> "arrangeFreeFunctionType", type |-> FTP, table |-> {}])

ArrangeDeclarationInTable ==
    /\ Idle
    /\ \E FD \in UnitDecls, CGM \in CGMs :
           ArrangeInTable([op |-> "arrangeFunctionDeclaration", decl |-> FD, CGM |-> CGM,
                           table |-> {}])

NextTable ==
    \/ ArrangeTypeInTable
    \/ ArrangeDeclarationInTable
    \/ Retire

SpecTable == Init /\ [][NextTable]_vars

(***************************************************************************)
(* GetFunctionType: the machine function type of a descriptor.             *)
(*                                                                         *)
(* convertType is the type-conversion oracle.  Converting a type that has  *)
(* a function type behind it (a pointer to function, or a record with such *)
(* a member) arranges that function type and asks GetFunctionType for it,  *)
(* so invocations nest; FunctionTypeBehind says which types do.            *)
(***************************************************************************)
FnProto(ret, params) ==
    [Kind |-> "Proto", ReturnType |-> ret, ParamTypes |-> params,
     Variadic |-> FALSE, CC |-> "CC_C", HasExtParameterInfos |-> FALSE,
     ExtParameterInfos |-> <<>>]

TypesWithFunctionBehind == {"fnptr<int(int)>", "fnptr<void(fnptr<int(int)>)>", "Node", "A", "B"}

FunctionTypeBehind(T) ==
    CASE T = "fnptr<int(int)>" -> FnProto("int", <<"int">>)
      [] T = "fnptr<void(fnptr<int(int)>)>" -> FnProto("void", <<"fnptr<int(int)>">>)
      [] T = "Node" -> FnProto("void", <<"Node">>)
      [] T = "A" -> FnProto("int", <<"B">>)
      [] T = "B" -> FnProto("int", <<"A">>)

FunctionInfoBehind(T) ==
    CHOOSE FI \in arrangeFreeFunctionType(FunctionTypeBehind(T)).FIs : TRUE

(* The conversion of the types with no function type behind them; the     *)
(* oracle has no machine type for "untyped" and answers null.              *)
convertTypeLeaf(T) ==
    CASE T = "void" -> "!void"
      [] T = "bool" -> "!cir.bool"
      [] T = "char" -> "!s8i"
      [] T = "short" -> "!s16i"
      [] T = "int" -> "!s32i"
      [] T = "long" -> "!s64i"
      [] T = "size_t" -> "!u64i"
      [] T = "float" -> "!cir.float"
      [] T = "double" -> "!cir.double"
      [] T = "_Complex double" -> "!cir.complex<!cir.double>"
      [] T \in {"S1", "S2", "S3"} -> "!ty_" \o T
      [] T = "untyped" -> "null"
      [] OTHER -> "!cir." \o T

RECURSIVE RenderTypes(_)
RenderTypes(types) ==
    IF types = <<>> THEN ""
    ELSE IF Len(types) = 1 THEN Head(types)
    ELSE Head(types) \o ", " \o RenderTypes(Tail(types))

RenderFuncType(FT) ==
    "!cir.func<(" \o RenderTypes(FT.inputs)
    \o (IF FT.varArg THEN (IF FT.inputs = <<>> THEN "..." ELSE ", ...") ELSE "")
    \o ") -> " \o FT.result \o ">"

(* The conversion of a type with a function type behind it, once that      *)
(* function type has been lowered to FT.                                   *)
convertTypeOver(T, FT) ==
    IF T \in {"Node", "A", "B"} THEN "!ty_" \o T
    ELSE "!cir.ptr<" \o RenderFuncType(FT) \o ">"

FuncTypeGet_neverVarArg(inputs, result, varArg) ==
    [inputs |-> inputs, result |-> result, varArg |-> FALSE]

(* cir::FuncType::get *)
FuncTypeGet(inputs, result, varArg) ==
    [inputs |-> inputs, result |-> result, varArg |-> varArg]

(* A GetFunctionType invocation: next = 0 converts the return type, next = *)
(* k the k-th required argument.                                           *)
NewInvocation(FI) == [FI |-> FI, next |-> 0, resultType |-> "null", ArgTypes |-> <<>>]

Top == stack[Len(stack)]

PendingType(frame) ==
    IF frame.next = 0 THEN frame.FI.ReturnType
    ELSE requiredArguments(frame.FI)[frame.next]

Converting ==
    /\ stack # <<>>
    /\ lowered.fault = NoFault
    /\ Top.next <= getNumRequiredArgs(Top.FI)

Converted(frame, type) ==
    IF frame.next = 0
    THEN [frame EXCEPT !.resultType = type, !.next = 1]
    ELSE [frame EXCEPT !.ArgTypes = Append(@, type), !.next = @ + 1]

(* Entry: FunctionsBeingProcessed.insert(&FI) and the assertion on it. *)
Enter_noAssert(FI) ==
    /\ Len(stack) < MaxDepth
    /\ FunctionsBeingProcessed' = FunctionsBeingProcessed \cup {FI}
    /\ stack' = Append(stack, NewInvocation(FI))
    /\ lowered' = lowered

Enter(FI) ==
    IF FI \in FunctionsBeingProcessed
    THEN /\ lowered' = [fault |-> "Recursively being processed?", types |-> {}]
         /\ UNCHANGED <<FunctionsBeingProcessed, stack>>
    ELSE /\ Len(stack) < MaxDepth
         /\ FunctionsBeingProcessed' = FunctionsBeingProcessed \cup {FI}
         /\ stack' = Append(stack, NewInvocation(FI))
         /\ lowered' = lowered

(* The descriptors handed to GetFunctionType. *)
LowerTys == {"int", "fnptr<int(int)>", "fnptr<void(fnptr<int(int)>)>", "Node", "A"}

LowerProtos ==
    {[Kind |-> "Proto", ReturnType |-> r, ParamTypes |-> ps, Variadic |-> v,
      CC |-> "CC_C", HasExtParameterInfos |-> FALSE, ExtParameterInfos |-> <<>>] :
        r \in {"void", "int", "fnptr<int(int)>", "untyped"}, v \in BOOLEAN,
        ps \in SeqsUpTo(LowerTys, MaxParams)}

LowerFIs ==
    UNION {arrangeFreeFunctionType(p).FIs : p \in LowerProtos}
    \cup UNION {UNION {arrangeFreeFunctionCall(args, p, FALSE).FIs :
                            args \in CallArgsFor(<<>>, p, <<>>)} :
                    p \in LowerProtos}

GetFunctionType ==
    /\ Idle
    /\ stack = <<>>
    /\ \E FI \in LowerFIs :
           /\ Enter(FI)
           /\ request' = [op |-> "GetFunctionType", FI |-> FI]
    /\ UNCHANGED <<arranged, FunctionInfos, mayThrow, callWithExceptionCtx, emitted,
                   callArgs>>

(* convertType of a type that needs no function type. *)
ConvertType ==
    /\ Converting
    /\ PendingType(Top) \notin TypesWithFunctionBehind
    /\ stack' = [stack EXCEPT ![Len(stack)] =
                     Converted(@, convertTypeLeaf(PendingType(Top)))]
    /\ UNCHANGED <<request, arranged, FunctionInfos, FunctionsBeingProcessed,
                   lowered, mayThrow, callWithExceptionCtx, emitted, callArgs>>

(* convertType of a type with a function type behind it: GetFunctionType   *)
(* is entered for that function type's descriptor.                          *)
ConvertTypeNested ==
    /\ Converting
    /\ PendingType(Top) \in TypesWithFunctionBehind
    /\ Enter(FunctionInfoBehind(PendingType(Top)))
    /\ UNCHANGED <<request, arranged, FunctionInfos, mayThrow, callWithExceptionCtx,
                   emitted, callArgs>>

GetFunctionTypeReturn_noErase ==
    /\ stack # <<>>
    /\ lowered.fault = NoFault
    /\ Top.next > getNumRequiredArgs(Top.FI)
    /\ LET FI == Top.FI
           FT == FuncTypeGet(Top.ArgTypes,
                             IF Top.resultType # "null" THEN Top.resultType
                             ELSE "!void",
                             isVariadic(FI))
           rest == SubSeq(stack, 1, Len(stack) - 1)
       IN IF FI \notin FunctionsBeingProcessed
          THEN /\ lowered' = [fault |-> "Not in set?", types |-> {}]
               /\ UNCHANGED <<FunctionsBeingProcessed, stack>>
          ELSE /\ FunctionsBeingProcessed' = FunctionsBeingProcessed
               /\ IF rest = <<>>
                  THEN /\ stack' = rest
                       /\ lowered' = [fault |-> NoFault, types |-> {FT}]
                  ELSE /\ stack' = [rest EXCEPT ![Len(rest)] =
                                        Converted(@, convertTypeOver(
                                            PendingType(rest[Len(rest)]), FT))]
                       /\ lowered' = lowered
    /\ UNCHANGED <<request, arranged, FunctionInfos, mayThrow, callWithExceptionCtx,
                   emitted, callArgs>>

(* Exit: FunctionsBeingProcessed.erase(&FI), the assertion on it, and the  *)
(* function type; a nested invocation hands it to the conversion that      *)
(* asked for it.                                                           *)
GetFunctionTypeReturn ==
    /\ stack # <<>>
    /\ lowered.fault = NoFault
    /\ Top.next > getNumRequiredArgs(Top.FI)
    /\ LET FI == Top.FI
           FT == FuncTypeGet(Top.ArgTypes,
                             IF Top.resultType # "null" THEN Top.resultType
                             ELSE "!void",
                             isVariadic(FI))
           rest == SubSeq(stack, 1, Len(stack) - 1)
       IN IF FI \notin FunctionsBeingProcessed
          THEN /\ lowered' = [fault |-> "Not in set?", types |-> {}]
               /\ UNCHANGED <<FunctionsBeingProcessed, stack>>
          ELSE /\ FunctionsBeingProcessed' = FunctionsBeingProcessed \ {FI}
               /\ IF rest = <<>>
                  THEN /\ stack' = rest
                       /\ lowered' = [fault |-> NoFault, types |-> {FT}]
                  ELSE /\ stack' = [rest EXCEPT ![Len(rest)] =
                                        Converted(@, convertTypeOver(
                                            PendingType(rest[Len(rest)]), FT))]
                       /\ lowered' = lowered
    /\ UNCHANGED <<request, arranged, FunctionInfos, mayThrow, callWithExceptionCtx,
                   emitted, callArgs>>

NextLower ==
    \/ GetFunctionType
    \/ ConvertType
    \/ ConvertTypeNested
    \/ GetFunctionTypeReturn
    \/ Retire

SpecLower == Init /\ [][NextLower]_vars

(***************************************************************************)
(* Machine types.                                                          *)
(***************************************************************************)
IntTypes == {"!s8i", "!s16i", "!s32i", "!s64i", "!u64i"}

RecordTypes == {"!ty_S1", "!ty_S2", "!ty_S3"}

(* Storage width in bits; S1 and S2 have the same size and different      *)
(* members, S3 is larger.                                                  *)
BitWidth(ty) ==
    CASE ty = "!s8i" -> 8
      [] ty = "!cir.bool" -> 8
      [] ty = "!s16i" -> 16
      [] ty = "!s32i" -> 32
      [] ty = "!cir.float" -> 32
      [] ty = "!ty_S3" -> 128
      [] OTHER -> 64

(* The function type GetFunctionType ends with, for a descriptor none of   *)
(* whose types has a function type behind it.                              *)
GetFunctionTypeOf(FI) ==
    LET required == requiredArguments(FI)
        resultType == convertTypeLeaf(FI.ReturnType)
    IN FuncTypeGet([i \in 1..Len(required) |-> convertTypeLeaf(required[i])],
                   IF resultType # "null" THEN resultType ELSE "!void",
                   isVariadic(FI))

getEvaluationKind(T) ==
    IF T \in {"S1", "S2", "S3"} THEN "TEK_Aggregate"
    ELSE IF T = "_Complex double" THEN "TEK_Complex"
    ELSE "TEK_Scalar"

(***************************************************************************)
(* The callee's prototype, as far as the attribute list reads it.  Asking  *)
(* isNothrow of an unresolved exception specification has no defined       *)
(* answer; UnresolvedAnswer is the one the build happens to give.          *)
(***************************************************************************)
NullFPT == [IsNull |-> TRUE, ExceptionSpecType |-> "EST_None", UnresolvedAnswer |-> FALSE]

FPTWith(est, answer) == [IsNull |-> FALSE, ExceptionSpecType |-> est, UnresolvedAnswer |-> answer]

isUnresolvedExceptionSpec(ESpecType) ==
    ESpecType \in {"EST_Unevaluated", "EST_Uninstantiated", "EST_Unparsed"}

isNothrow(FPT) ==
    IF isUnresolvedExceptionSpec(FPT.ExceptionSpecType) THEN FPT.UnresolvedAnswer
    ELSE FPT.ExceptionSpecType \in
             {"EST_DynamicNone", "EST_NoThrow", "EST_BasicNoexcept", "EST_NoexceptTrue"}

AddAttributesFromFunctionProtoType_anySpec(FuncAttrs, FPT) ==
    FuncAttrs \cup (IF FPT.IsNull THEN {}
                    ELSE IF isNothrow(FPT) THEN {"nothrow"}
                    ELSE {})

AddAttributesFromFunctionProtoType(FuncAttrs, FPT) ==
    FuncAttrs \cup (IF FPT.IsNull THEN {}
                    ELSE IF ~isUnresolvedExceptionSpec(FPT.ExceptionSpecType) /\ isNothrow(FPT)
                    THEN {"nothrow"}
                    ELSE {})

(***************************************************************************)
(* Declarations, language options and the default attributes.              *)
(***************************************************************************)
NullDecl == [IsNull |-> TRUE, DeclKind |-> "none", Attrs |-> {}, Type |-> NullFPT, IsVirtual |-> FALSE]

DeclWith(kind, attrs, type) == [IsNull |-> FALSE, DeclKind |-> kind, Attrs |-> attrs, Type |-> type, IsVirtual |-> FALSE]

isFunctionDecl(D) == ~D.IsNull /\ D.DeclKind \in {"Function", "CXXMethod"}

DefaultLangOpts ==
    [OpenCL |-> FALSE, OpenCLVersion |-> 0, CUDA |-> FALSE, HIP |-> FALSE,
     CUDAIsDevice |-> FALSE, SYCLIsDevice |-> FALSE,
     OffloadUniformBlock |-> FALSE, ConvergentFunctions |-> FALSE,
     ObjCAutoRefCount |-> FALSE]

AttrList(fault, funcAttrs, callingConv, sideEffect) ==
    [fault |-> fault, funcAttrs |-> funcAttrs, callingConv |-> callingConv, sideEffect |-> sideEffect]

getTrivialDefaultFunctionAttributes(hasOptnone, langOpts, attrOnCallSite, funcAttrs) ==
    [fault |-> IF langOpts.SYCLIsDevice THEN "NYI" ELSE NoFault,
     funcAttrs |->
         funcAttrs
         \cup (IF langOpts.ConvergentFunctions THEN {"convergent"} ELSE {})
         \cup (IF ~langOpts.SYCLIsDevice
                  /\ (langOpts.OpenCL
                      \/ ((langOpts.CUDA \/ langOpts.HIP) /\ langOpts.CUDAIsDevice))
               THEN {"nothrow"} ELSE {})]

getDefaultFunctionAttributes(hasOptnone, langOpts, attrOnCallSite, funcAttrs) ==
    getTrivialDefaultFunctionAttributes(hasOptnone, langOpts, attrOnCallSite, funcAttrs)

(* A member function declaration, virtual or not. *)
MethodDeclWith(attrs, type, virtual) == [IsNull |-> FALSE, DeclKind |-> "CXXMethod", Attrs |-> attrs, Type |-> type, IsVirtual |-> virtual]

(* Fn->isNoReturn() *)
isNoReturn(Fn) == "NoReturn" \in Fn.Attrs

sideEffectFor_pureFirst(TargetDecl) ==
    IF TargetDecl.IsNull THEN "all"
    ELSE IF "Pure" \in TargetDecl.Attrs THEN "pure"
    ELSE IF "Const" \in TargetDecl.Attrs THEN "const"
    ELSE "all"

(* The side effect of the call: All to begin with, Const for a const       *)
(* declaration, else Pure for a pure one; noalias changes nothing.         *)
sideEffectFor(TargetDecl) ==
    IF TargetDecl.IsNull THEN "all"
    ELSE IF "Const" \in TargetDecl.Attrs THEN "const"
    ELSE IF "Pure" \in TargetDecl.Attrs THEN "pure"
    ELSE IF "NoAlias" \in TargetDecl.Attrs THEN "all"
    ELSE "all"

(***************************************************************************)
(* CIRGenModule::constructAttributeList                                    *)
(***************************************************************************)
constructAttributeList(FI, CalleeInfo, funcAttrs, langOpts, AttrOnCallSite) ==
    LET TargetDecl == CalleeInfo.Decl
        fromProto == AddAttributesFromFunctionProtoType(funcAttrs, CalleeInfo.FPT)
        fromNoThrow ==
            fromProto
            \cup (IF ~TargetDecl.IsNull /\ "NoThrow" \in TargetDecl.Attrs
                  THEN {"nothrow"} ELSE {})
        \* Only a function declaration hands its own prototype on.
        fromFnProto ==
            AddAttributesFromFunctionProtoType(
                fromNoThrow, IF isFunctionDecl(TargetDecl) THEN TargetDecl.Type ELSE NullFPT)
        IsVirtualCall == TargetDecl.DeclKind = "CXXMethod" /\ TargetDecl.IsVirtual
        \* The branch for [[noreturn]] and [[no_builtin]] is entered unless the
        \* attributes are for a call site of a virtual member function; its
        \* statement for a no-return function is empty, so the attributes
        \* leave it as they entered.
        fromFn ==
            fromFnProto
            \cup (IF isFunctionDecl(TargetDecl) /\ ~(AttrOnCallSite /\ IsVirtualCall)
                  THEN IF isNoReturn(TargetDecl) THEN {} ELSE {}
                  ELSE {})
        sideEffect == sideEffectFor(TargetDecl)
        HasOptnone == ~TargetDecl.IsNull /\ "OptimizeNone" \in TargetDecl.Attrs
        fromKernel ==
            fromFn
            \cup (IF ~TargetDecl.IsNull /\ "OpenCLKernel" \in TargetDecl.Attrs
                  THEN {"cl.kernel"}
                       \cup (IF langOpts.OpenCLVersion <= 120 \/ langOpts.OffloadUniformBlock
                             THEN {"cl.uniform_work_group_size"} ELSE {})
                  ELSE {})
        fromCUDA ==
            fromKernel
            \cup (IF ~TargetDecl.IsNull /\ langOpts.CUDA /\ ~langOpts.CUDAIsDevice
                     /\ "CUDAGlobal" \in TargetDecl.Attrs
                  THEN {"cu.kernel_name"} ELSE {})
        defaults == getDefaultFunctionAttributes(HasOptnone, langOpts, AttrOnCallSite, fromCUDA)
    IN AttrList(defaults.fault, defaults.funcAttrs, FI.EffectiveCallingConvention, sideEffect)

(***************************************************************************)
(* emitCallLikeOp: the one call construct, plain or inside an unwind       *)
(* scope.                                                                  *)
(***************************************************************************)
CallOp(kind, callee, args, callingConv, sideEffect, extraAttrs, region, resultType) ==
    [kind |-> kind, callee |-> callee, args |-> args, callingConv |-> callingConv,
     sideEffect |-> sideEffect, extra_attrs |-> extraAttrs, region |-> region,
     resultType |-> resultType]

CallLikeOp(fault, tryOp, calls, throws) ==
    [fault |-> fault, tryOp |-> tryOp, calls |-> calls, mayThrow |-> throws]

(* The closest enclosing try, or a synthetic one. *)
getOrCreateSurroundingTryOp(env) ==
    IF env.TryParent # "null" THEN env.TryParent ELSE "synthetic"

emitCallLikeOp_noExtraAttrs(env, indirect, callee, resultType, CIRCallArgs, isInvoke, callingConv, sideEffect, extraFnAttrs) ==
    IF isInvoke
    THEN LET tryOp == getOrCreateSurroundingTryOp(env)
             region == IF tryOp = "synthetic" THEN "try" ELSE "current"
         IN IF callingConv # "C" THEN CallLikeOp("NYI", tryOp, <<>>, FALSE)
            ELSE CallLikeOp(NoFault, tryOp,
                     <<CallOp(IF indirect THEN "try_call_indirect" ELSE "try_call",
                              callee, CIRCallArgs, callingConv, sideEffect,
                              {}, region, resultType)>>, TRUE)
    ELSE IF indirect
    THEN IF callingConv # "C" THEN CallLikeOp("NYI", "none", <<>>, FALSE)
         ELSE CallLikeOp(NoFault, "none",
                  <<CallOp("call_indirect", callee, CIRCallArgs, "C", sideEffect,
                           extraFnAttrs, "current", resultType)>>, FALSE)
    ELSE CallLikeOp(NoFault, "none",
             <<CallOp("call", callee, CIRCallArgs, callingConv, sideEffect,
                      extraFnAttrs, "current", resultType)>>, FALSE)

emitCallLikeOp_anyConvIndirect(env, indirect, callee, resultType, CIRCallArgs, isInvoke, callingConv, sideEffect, extraFnAttrs) ==
    IF isInvoke
    THEN LET tryOp == getOrCreateSurroundingTryOp(env)
             region == IF tryOp = "synthetic" THEN "try" ELSE "current"
         IN IF callingConv # "C" THEN CallLikeOp("NYI", tryOp, <<>>, FALSE)
            ELSE CallLikeOp(NoFault, tryOp,
                     <<CallOp(IF indirect THEN "try_call_indirect" ELSE "try_call",
                              callee, CIRCallArgs, callingConv, sideEffect,
                              extraFnAttrs, region, resultType)>>, TRUE)
    ELSE CallLikeOp(NoFault, "none",
             <<CallOp(IF indirect THEN "call_indirect" ELSE "call", callee, CIRCallArgs,
                      callingConv, sideEffect, extraFnAttrs, "current", resultType)>>, FALSE)

emitCallLikeOp(env, indirect, callee, resultType, CIRCallArgs, isInvoke, callingConv, sideEffect, extraFnAttrs) ==
    IF isInvoke
    THEN LET tryOp == getOrCreateSurroundingTryOp(env)
             region == IF tryOp = "synthetic" THEN "try" ELSE "current"
         IN IF callingConv # "C" THEN CallLikeOp("NYI", tryOp, <<>>, FALSE)
            ELSE CallLikeOp(NoFault, tryOp,
                     <<CallOp(IF indirect THEN "try_call_indirect" ELSE "try_call",
                              callee, CIRCallArgs, callingConv, sideEffect,
                              extraFnAttrs, region, resultType)>>, TRUE)
    ELSE IF indirect
    THEN IF callingConv # "C" THEN CallLikeOp("NYI", "none", <<>>, FALSE)
         ELSE CallLikeOp(NoFault, "none",
                  <<CallOp("call_indirect", callee, CIRCallArgs, "C", sideEffect,
                           extraFnAttrs, "current", resultType)>>, FALSE)
    ELSE CallLikeOp(NoFault, "none",
             <<CallOp("call", callee, CIRCallArgs, callingConv, sideEffect,
                      extraFnAttrs, "current", resultType)>>, FALSE)

(***************************************************************************)
(* emitCall, step 1: the arguments.                                        *)
(***************************************************************************)
ScalarArg(ty) == [isAggregate |-> FALSE, Ty |-> ty]

AggregateArg(srcTy) == [isAggregate |-> TRUE, Ty |-> srcTy]

Operand(fault, how, argNo, from, type, reinterpreted) ==
    [fault |-> fault, how |-> how, arg |-> argNo, from |-> from, type |-> type,
     reinterpreted |-> reinterpreted]

(* createElementBitCast: the address as a pointer to destType; the same    *)
(* address when it already is one.                                         *)
createElementBitCast(Src, destType) ==
    IF Src.elementType = destType THEN Src
    ELSE [Src EXCEPT !.elementType = destType, !.reinterpreted = TRUE]

materializeArg_addressOnly(argType, arg, ArgNo, CIRFuncTy) ==
    IF argType \notin RecordTypes
    THEN IF arg.isAggregate
         THEN Operand("Aggregate NYI", "none", ArgNo, arg.Ty, argType, FALSE)
         ELSE IF argType # arg.Ty /\ arg.Ty \in IntTypes
         THEN Operand("NYI", "none", ArgNo, arg.Ty, argType, FALSE)
         ELSE IF ArgNo < Len(CIRFuncTy.inputs) /\ arg.Ty # CIRFuncTy.inputs[ArgNo + 1]
         THEN Operand(NoFault, "bitcast", ArgNo, arg.Ty, CIRFuncTy.inputs[ArgNo + 1], FALSE)
         ELSE Operand(NoFault, "value", ArgNo, arg.Ty, arg.Ty, FALSE)
    ELSE IF ~arg.isAggregate
         THEN Operand("NYI", "none", ArgNo, arg.Ty, argType, FALSE)
         ELSE IF arg.Ty # argType
         THEN Operand("NYI", "none", ArgNo, arg.Ty, argType, FALSE)
         ELSE Operand(NoFault, "address", ArgNo, arg.Ty, "!cir.ptr<" \o argType \o ">", FALSE)

(* One turn of the argument loop; ArgNo counts from 0 as in the code. *)
materializeArg(argType, arg, ArgNo, CIRFuncTy) ==
    IF argType \notin RecordTypes
    THEN IF arg.isAggregate
         THEN Operand("Aggregate NYI", "none", ArgNo, arg.Ty, argType, FALSE)
         ELSE IF argType # arg.Ty /\ arg.Ty \in IntTypes
         THEN Operand("NYI", "none", ArgNo, arg.Ty, argType, FALSE)
         ELSE IF ArgNo < Len(CIRFuncTy.inputs) /\ arg.Ty # CIRFuncTy.inputs[ArgNo + 1]
         THEN Operand(NoFault, "bitcast", ArgNo, arg.Ty, CIRFuncTy.inputs[ArgNo + 1], FALSE)
         ELSE Operand(NoFault, "value", ArgNo, arg.Ty, arg.Ty, FALSE)
    ELSE IF ~arg.isAggregate
         THEN Operand("NYI", "none", ArgNo, arg.Ty, argType, FALSE)
         ELSE LET Src == [elementType |-> arg.Ty, reinterpreted |-> FALSE]
              IN IF Src.elementType # argType
                 THEN Operand("NYI", "none", ArgNo, arg.Ty, argType, FALSE)
                 ELSE LET cast == createElementBitCast(Src, argType)
                      IN Operand(NoFault, "load", ArgNo, arg.Ty, cast.elementType,
                                 cast.reinterpreted)

materializeArgs(CallInfo, CallArgs, CIRFuncTy) ==
    [i \in 1..Len(CallArgs) |->
        materializeArg(convertTypeLeaf(CallInfo.ArgTypes[i]), CallArgs[i], i - 1, CIRFuncTy)]

(* The position of the first argument that faults, 0 when none does. *)
FirstFault(operands) ==
    IF \A i \in 1..Len(operands) : operands[i].fault = NoFault THEN 0
    ELSE CHOOSE i \in 1..Len(operands) :
             /\ operands[i].fault # NoFault
             /\ \A j \in 1..(i - 1) : operands[j].fault = NoFault

(***************************************************************************)
(* emitCall, step 3: call or invoke.                                       *)
(***************************************************************************)
CannotThrow_attrsOnly(env, Attrs, CalleePtr) ==
    IF env.isCleanupPadScope /\ env.isMSVCXXPersonality THEN TRUE
    ELSE "nothrow" \in Attrs

CannotThrow(env, Attrs, CalleePtr) ==
    IF env.currentFunctionUsesSEHTry THEN FALSE
    ELSE IF env.isCleanupPadScope /\ env.isMSVCXXPersonality THEN TRUE
    ELSE IF CalleePtr.Op = "FuncOp" /\ "nothrow" \in CalleePtr.ExtraAttrs THEN TRUE
    ELSE "nothrow" \in Attrs

(* Callee.prepareConcreteCallee: a virtual callee becomes the function     *)
(* pointer the ABI loads from the vtable.                                  *)
prepareConcreteCallee(Callee) ==
    IF Callee.Kind = "Virtual"
    THEN [Callee EXCEPT !.Kind = "Ordinary", !.Ptr.Op = "Value", !.Ptr.ExtraAttrs = {}]
    ELSE Callee

(***************************************************************************)
(* emitCall, step 4: the return value.                                     *)
(***************************************************************************)
NoRValue == [kind |-> "none", value |-> "none", addr |-> "none"]

Extraction(fault, stores, loads, ret) ==
    [fault |-> fault, stores |-> stores, loads |-> loads, ret |-> ret]

(* A store placed right after the operation defining its value. *)
StoreAfter(val, addr, region) == [value |-> val, addr |-> addr, after |-> val, region |-> region]

LoadAt(addr, region) == [addr |-> addr, region |-> region]

getRValueThroughMemory_direct(val, addr, valRegion) ==
    Extraction(NoFault, <<>>, <<>>,
               [kind |-> "scalar", value |-> val, addr |-> "none"])

getRValueThroughMemory(val, addr, valRegion) ==
    Extraction(NoFault, <<StoreAfter(val, addr, valRegion)>>, <<LoadAt(addr, "current")>>,
               [kind |-> "scalar", value |-> "load", addr |-> addr])

(* theCall->getOpResults(): the results of the call construct, one for    *)
(* each result type of the callee's function type.  TwoResults is the      *)
(* result type list of a callee with two results.                          *)
TwoResults == "!s32i, !s32i"

getOpResults(theCall) ==
    IF theCall.resultType = "!void" THEN <<>>
    ELSE IF theCall.resultType = TwoResults THEN <<"!s32i", "!s32i">>
    ELSE <<theCall.resultType>>

(* Results[0] of a call construct with no result: the index assertion of   *)
(* the result range stops the build the other assertions are compiled in.  *)
InvalidIndex == "assert: invalid index for value range"

extractReturnValue(RetTy, ReturnValue, theCall) ==
    LET RetCIRTy == convertTypeLeaf(RetTy)
    IN IF RetCIRTy = "!void"
       THEN Extraction(NoFault, <<>>, <<>>,
                       [kind |-> "undef", value |-> "undef", addr |-> "none"])
       ELSE IF getEvaluationKind(RetTy) = "TEK_Aggregate"
       THEN LET DestPtr == IF ReturnValue.Valid THEN ReturnValue.Addr ELSE "agg.tmp"
            IN IF Len(getOpResults(theCall)) > 1
               THEN Extraction("assert: multiple returns NYI", <<>>, <<>>, NoRValue)
               ELSE IF getOpResults(theCall) = <<>>
               THEN Extraction(InvalidIndex, <<>>, <<>>, NoRValue)
               ELSE Extraction(NoFault,
                               <<StoreAfter("call.result", DestPtr, theCall.region)>>,
                               <<>>,
                               [kind |-> "aggregate", value |-> "none", addr |-> DestPtr])
       ELSE IF getEvaluationKind(RetTy) = "TEK_Scalar"
       THEN IF Len(getOpResults(theCall)) > 1
            THEN Extraction("assert: multiple returns NYI", <<>>, <<>>, NoRValue)
            ELSE IF getOpResults(theCall) = <<>>
            THEN Extraction(InvalidIndex, <<>>, <<>>, NoRValue)
            ELSE IF theCall.resultType # RetCIRTy
            THEN Extraction("Bitcast support NYI", <<>>, <<>>, NoRValue)
            ELSE IF theCall.region # "current"
            THEN getRValueThroughMemory("call.result",
                     IF ReturnValue.Valid THEN ReturnValue.Addr ELSE "tmp.try.call.res",
                     theCall.region)
            ELSE Extraction(NoFault, <<>>, <<>>,
                     [kind |-> "scalar", value |-> "call.result", addr |-> "none"])
       ELSE Extraction("NYI", <<>>, <<>>, NoRValue)

(***************************************************************************)
(* CIRGenFunction::emitCall                                                *)
(***************************************************************************)
Outcome(status, fault, argFaultAt, attrs, tryOp, calls, extraction, throws) ==
    [status |-> status, fault |-> fault, argFaultAt |-> argFaultAt, attrs |-> attrs,
     tryOp |-> tryOp, calls |-> calls, stores |-> extraction.stores,
     loads |-> extraction.loads, ret |-> extraction.ret, mayThrow |-> throws]

NoExtraction == Extraction(NoFault, <<>>, <<>>, NoRValue)

FaultBeforeCall(why, argFaultAt) ==
    Outcome("fault", why, argFaultAt, {}, "none", <<>>, NoExtraction, FALSE)

emitCall(CallInfo, Callee, ReturnValue, CallArgs, IsMustTail, env) ==
    LET CIRFuncTy == GetFunctionTypeOf(CallInfo)
        TargetDecl == Callee.AbstractInfo.Decl
        operands == materializeArgs(CallInfo, CallArgs, CIRFuncTy)
        bad == FirstFault(operands)
        CalleePtr == prepareConcreteCallee(Callee).Ptr
        list == constructAttributeList(CallInfo, Callee.AbstractInfo, {}, env.langOpts, TRUE)
        isInvoke == IF CannotThrow(env, list.funcAttrs, CalleePtr) THEN FALSE
                    ELSE env.isInvokeDest
        indirect == CalleePtr.Op \notin {"FuncOp", "GetGlobalOp"}
        op == emitCallLikeOp(env, indirect, CalleePtr.Op,
                             IF indirect THEN CIRFuncTy.result ELSE CalleePtr.ResultType,
                             operands, isInvoke, list.callingConv, list.sideEffect,
                             list.funcAttrs)
        FaultAfterCall(why) ==
            Outcome("fault", why, 0, list.funcAttrs, op.tryOp, op.calls, NoExtraction,
                    op.mayThrow)
        extraction == extractReturnValue(CallInfo.ReturnType, ReturnValue, op.calls[1])
    IN IF Callee.Kind \notin {"Ordinary", "Virtual"}
       THEN FaultBeforeCall("Callee.isOrdinary() || Callee.isVirtual()", 0)
       ELSE IF CallInfo.ArgRecord THEN FaultBeforeCall("NYI", 0)
       ELSE IF bad # 0 THEN FaultBeforeCall(operands[bad].fault, bad)
       ELSE IF list.fault # NoFault THEN FaultBeforeCall(list.fault, 0)
       ELSE IF env.isSEHTryScope THEN FaultBeforeCall("NYI", 0)
       ELSE IF "StrictFP" \in env.CurFuncDeclAttrs THEN FaultBeforeCall("NYI", 0)
       ELSE IF op.fault # NoFault
       THEN Outcome("fault", op.fault, 0, list.funcAttrs, op.tryOp, <<>>, NoExtraction, FALSE)
       ELSE IF "CFGuard" \in env.CurFuncDeclAttrs THEN FaultAfterCall("NYI")
       ELSE IF env.langOpts.ObjCAutoRefCount THEN FaultAfterCall("Not supported")
       ELSE IF ~TargetDecl.IsNull /\ "NotTailCalled" \in TargetDecl.Attrs
       THEN FaultAfterCall("NYI")
       ELSE IF env.DebugInfo THEN FaultAfterCall("No debug info yet")
       ELSE IF ~TargetDecl.IsNull /\ "Error" \in TargetDecl.Attrs THEN FaultAfterCall("NYI")
       ELSE IF IsMustTail THEN FaultAfterCall("NYI")
       ELSE IF extraction.fault # NoFault THEN FaultAfterCall(extraction.fault)
       ELSE Outcome("completed", NoFault, 0, list.funcAttrs, op.tryOp, op.calls,
                    extraction, op.mayThrow)

(***************************************************************************)
(* The calls emitCall is asked to emit.                                    *)
(***************************************************************************)
Env(seh, cleanupPad, msvc, invokeDest, tryParent) ==
    [isSEHTryScope |-> FALSE, currentFunctionUsesSEHTry |-> seh,
     isCleanupPadScope |-> cleanupPad, isMSVCXXPersonality |-> msvc,
     isInvokeDest |-> invokeDest, TryParent |-> tryParent,
     CurFuncDeclAttrs |-> {}, DebugInfo |-> FALSE, langOpts |-> DefaultLangOpts]

Envs ==
    {Env(seh, pad, msvc, dest, try) :
        seh \in BOOLEAN, pad \in BOOLEAN, msvc \in BOOLEAN, dest \in BOOLEAN,
        try \in {"null", "explicit"}}

PlainEnv == Env(FALSE, FALSE, FALSE, FALSE, "null")

(* The function-level conditions emitCall gives up on. *)
UnsupportedEnvs ==
    {[PlainEnv EXCEPT !.isSEHTryScope = TRUE],
     [PlainEnv EXCEPT !.CurFuncDeclAttrs = {"StrictFP"}],
     [PlainEnv EXCEPT !.CurFuncDeclAttrs = {"CFGuard"}],
     [PlainEnv EXCEPT !.DebugInfo = TRUE],
     [PlainEnv EXCEPT !.langOpts.ObjCAutoRefCount = TRUE],
     [PlainEnv EXCEPT !.langOpts.SYCLIsDevice = TRUE]}

CalleePtr(op, extraAttrs, resultType) == [Op |-> op, ExtraAttrs |-> extraAttrs, ResultType |-> resultType]

CalleePtrs(resultTypes) ==
    {CalleePtr(op, {}, r) : op \in {"FuncOp", "GetGlobalOp", "Value"}, r \in resultTypes}

NoThrowCalleePtrs(resultTypes) ==
    {CalleePtr(op, {"nothrow"}, r) : op \in {"FuncOp", "GetGlobalOp"}, r \in resultTypes}

CalleeFPTs ==
    {NullFPT, FPTWith("EST_None", FALSE), FPTWith("EST_BasicNoexcept", FALSE),
     FPTWith("EST_Unevaluated", FALSE), FPTWith("EST_Unevaluated", TRUE)}

CalleeDecls ==
    {NullDecl, DeclWith("Var", {"NoThrow"}, NullFPT),
     DeclWith("Function", {}, FPTWith("EST_None", FALSE)),
     DeclWith("Function", {"NoThrow"}, FPTWith("EST_None", FALSE)),
     DeclWith("Function", {}, FPTWith("EST_NoexceptTrue", FALSE)),
     DeclWith("Function", {}, FPTWith("EST_Uninstantiated", TRUE))}

AttributedDecls ==
    {DeclWith("Function", attrs, FPTWith("EST_None", FALSE)) :
        attrs \in {{"Const"}, {"Pure"}, {"Const", "Pure"}, {"NoAlias"}, {"OptimizeNone"},
                   {"OpenCLKernel"}, {"NotTailCalled"}, {"Error"}}}

(* Declarations carrying [[noreturn]]: a free function, and a member       *)
(* function that is virtual or not; and a virtual one without it.          *)
NoReturnDecls ==
    {DeclWith("Function", {"NoReturn"}, FPTWith("EST_None", FALSE))}
    \cup {MethodDeclWith(attrs, FPTWith("EST_None", FALSE), virtual) :
              attrs \in {{}, {"NoReturn"}}, virtual \in BOOLEAN}

CalleeWith(kind, ptr, fpt, decl) ==
    [Kind |-> kind, Ptr |-> ptr, AbstractInfo |-> [FPT |-> fpt, Decl |-> decl]]

CallInput(CallInfo, Callee, ReturnValue, CallArgs, IsMustTail, env) ==
    [CallInfo |-> CallInfo, Callee |-> Callee, ReturnValue |-> ReturnValue,
     CallArgs |-> CallArgs, IsMustTail |-> IsMustTail, env |-> env]

NoReturnSlot == [Valid |-> FALSE, Addr |-> "none"]

ReturnSlots == {NoReturnSlot, [Valid |-> TRUE, Addr |-> "ret.slot"]}

FIOf(proto) == CHOOSE FI \in arrangeFreeFunctionType(proto).FIs : TRUE

UnwindCalleePtrs ==
    {CalleePtr("FuncOp", {}, "!s32i"), CalleePtr("FuncOp", {"nothrow"}, "!s32i"),
     CalleePtr("GetGlobalOp", {"nothrow"}, "!s32i"), CalleePtr("Value", {}, "!s32i")}

SlotTys == {"int", "long", "float", "S1"}

CallArgKinds ==
    {ScalarArg(ty) : ty \in {"!s32i", "!s64i", "!cir.float", "!cir.double"}}
    \cup {AggregateArg(ty) : ty \in {"!ty_S1", "!ty_S2"}}

ArgProtos ==
    {[Kind |-> "Proto", ReturnType |-> "void", ParamTypes |-> ps, Variadic |-> FALSE,
      CC |-> "CC_C", HasExtParameterInfos |-> FALSE, ExtParameterInfos |-> <<>>] :
        ps \in SeqsUpTo(SlotTys, MaxParams)}
    \cup {[Kind |-> "Proto", ReturnType |-> "void", ParamTypes |-> ps, Variadic |-> TRUE,
           CC |-> "CC_C", HasExtParameterInfos |-> FALSE, ExtParameterInfos |-> <<>>] :
             ps \in SeqsUpTo(SlotTys, 1)}

ArgFIs ==
    UNION {UNION {arrangeFreeFunctionCall(args, p, FALSE).FIs :
                      args \in CallArgsFor(<<>>, p, <<>>)} : p \in ArgProtos}

ReturnTys == {"void", "int", "double", "S1", "_Complex double"}

EmitCallOf(input) ==
    \E in \in {input} :
        \E out \in {emitCall(in.CallInfo, in.Callee, in.ReturnValue, in.CallArgs,
                             in.IsMustTail, in.env)} :
            /\ request' = [op |-> "emitCall", in |-> in]
            /\ emitted' = out
            /\ mayThrow' = (mayThrow \/ out.mayThrow)
            /\ callWithExceptionCtx' = "null"

EmitCall ==
    /\ Idle
    /\ \* in every unwind situation, of callees with every source of no-throw
       \/ \E ptr \in UnwindCalleePtrs, fpt \in CalleeFPTs, decl \in CalleeDecls, env \in Envs :
              EmitCallOf(CallInput(FIOf(FnProto("int", <<"int", "S1">>)),
                                   CalleeWith("Ordinary", ptr, fpt, decl), NoReturnSlot,
                                   <<ScalarArg("!s32i"), AggregateArg("!ty_S1")>>,
                                   FALSE, env))
       \* of attributed callees, under either calling convention
       \/ \E cc \in {"C", "SpirKernel"}, ptr \in CalleePtrs({"!s32i"}),
             decl \in AttributedDecls \cup NoReturnDecls \cup {NullDecl},
             env \in {PlainEnv, Env(FALSE, FALSE, FALSE, TRUE, "null")} :
              EmitCallOf(CallInput([FIOf(FnProto("int", <<"int">>)) EXCEPT
                                        !.EffectiveCallingConvention = cc],
                                   CalleeWith("Ordinary", ptr, NullFPT, decl),
                                   NoReturnSlot, <<ScalarArg("!s32i")>>, FALSE, env))
       \* under the conditions emitCall gives up on, of every kind of callee
       \/ \E kind \in {"Ordinary", "Virtual", "Builtin"}, tail \in BOOLEAN,
             env \in UnsupportedEnvs
                     \cup {PlainEnv, [PlainEnv EXCEPT !.langOpts.OpenCL = TRUE],
                           [PlainEnv EXCEPT !.langOpts.ConvergentFunctions = TRUE]} :
              EmitCallOf(CallInput(FIOf(FnProto("int", <<"int">>)),
                                   CalleeWith(kind, CalleePtr("FuncOp", {}, "!s32i"),
                                              NullFPT, NullDecl),
                                   NoReturnSlot, <<ScalarArg("!s32i")>>, tail, env))
       \* with every pairing of parameter slot and evaluated argument
       \/ \E FI \in ArgFIs :
              \E args \in [1..FI.NumArgs -> CallArgKinds] :
                  EmitCallOf(CallInput(FI,
                                       CalleeWith("Ordinary",
                                                  CalleePtr("FuncOp", {}, "!void"),
                                                  NullFPT, NullDecl),
                                       NoReturnSlot, args, FALSE, PlainEnv))
       \* of every return type, into and outside an unwind scope
       \/ \E ret \in ReturnTys, slot \in ReturnSlots, dest \in BOOLEAN,
             try \in {"null", "explicit"} :
              \E ptr \in CalleePtrs({convertTypeLeaf(ret), "!s64i", TwoResults})
                         \cup NoThrowCalleePtrs({convertTypeLeaf(ret)}) :
                  EmitCallOf(CallInput(FIOf(FnProto(ret, <<"int">>)),
                                       CalleeWith("Ordinary", ptr, NullFPT, NullDecl),
                                       slot, <<ScalarArg("!s32i")>>, FALSE,
                                       Env(FALSE, FALSE, FALSE, dest, try)))
    /\ UNCHANGED <<arranged, FunctionInfos, FunctionsBeingProcessed, stack, lowered,
                   callArgs>>

NextEmit ==
    \/ EmitCall
    \/ Retire

SpecEmit == Init /\ [][NextEmit]_vars

(***************************************************************************)
(* Calls that pass and return small records by value.  emitCall leaves the *)
(* record type in place; the call-convention lowering, a pass that runs on *)
(* the emitted function when -fclangir-call-conv-lowering is given, then   *)
(* coerces a record the x86-64 ABI passes in one integer register to the   *)
(* 64-bit integer.  The pass is outside this file: it is modelled from the *)
(* specification's scenario and from what its test shows after the pass.   *)
(***************************************************************************)
(* The records of the INTEGER class that fill one eightbyte. *)
IntegerRegisterRecords == {"!ty_S1"}

CoerceToType(ty) == IF ty \in IntegerRegisterRecords THEN "!u64i" ELSE ty

(* An operand loaded from a temporary of a coerced record type is loaded   *)
(* through the temporary's address cast to a pointer to the coerced type.  *)
LowerOperand(operand) ==
    IF operand.how = "load" /\ CoerceToType(operand.type) # operand.type
    THEN [operand EXCEPT !.type = CoerceToType(operand.type), !.reinterpreted = TRUE]
    ELSE operand

(* The store of a coerced result goes through the same cast of the         *)
(* destination's address.                                                  *)
LowerStore(store, resultType) ==
    [value |-> store.value, addr |-> store.addr, after |-> store.after,
     region |-> store.region,
     through |-> IF CoerceToType(resultType) # resultType
                 THEN "!cir.ptr<" \o CoerceToType(resultType) \o ">"
                 ELSE "none"]

LowerCallOp(call) ==
    [call EXCEPT !.args = [i \in 1..Len(call.args) |-> LowerOperand(call.args[i])],
                 !.resultType = CoerceToType(call.resultType)]

CallConvLowering(out) ==
    [status |-> "lowered", fault |-> out.fault, attrs |-> out.attrs, tryOp |-> out.tryOp,
     calls |-> [i \in 1..Len(out.calls) |-> LowerCallOp(out.calls[i])],
     stores |-> [i \in 1..Len(out.stores) |->
                    LowerStore(out.stores[i], out.calls[1].resultType)],
     loads |-> out.loads, ret |-> out.ret, mayThrow |-> out.mayThrow]

(* Without the pass the function stays as emitCall made it. *)
NoCallConvLowering(out) ==
    [status |-> "lowered", fault |-> out.fault, attrs |-> out.attrs, tryOp |-> out.tryOp,
     calls |-> out.calls,
     stores |-> [i \in 1..Len(out.stores) |->
                    [value |-> out.stores[i].value, addr |-> out.stores[i].addr,
                     after |-> out.stores[i].after, region |-> out.stores[i].region,
                     through |-> "none"]],
     loads |-> out.loads, ret |-> out.ret, mayThrow |-> out.mayThrow]

RecordCallTys == {"int", "S1"}

ArgOfType(ty) ==
    IF getEvaluationKind(ty) = "TEK_Aggregate" THEN AggregateArg(convertTypeLeaf(ty))
    ELSE ScalarArg(convertTypeLeaf(ty))

(* Calls of functions that take and return ints and small records by       *)
(* value, at positions with and without an unwind destination.             *)
EmitRecordCall ==
    /\ Idle
    /\ \E ret \in RecordCallTys \cup {"void"}, params \in SeqsUpTo(RecordCallTys, MaxParams),
          slot \in ReturnSlots, dest \in BOOLEAN :
           EmitCallOf(CallInput(FIOf(FnProto(ret, params)),
                                CalleeWith("Ordinary",
                                           CalleePtr("FuncOp", {}, convertTypeLeaf(ret)),
                                           NullFPT, NullDecl),
                                slot, [i \in 1..Len(params) |-> ArgOfType(params[i])],
                                FALSE, Env(FALSE, FALSE, FALSE, dest, "null")))
    /\ UNCHANGED <<arranged, FunctionInfos, FunctionsBeingProcessed, stack, lowered,
                   callArgs>>

(* The passes after code generation, on the completed call: with the       *)
(* option the lowering pass rewrites it, without it nothing does.          *)
LowerCallConv ==
    /\ request.op = "emitCall"
    /\ emitted.status = "completed"
    /\ \E enabled \in BOOLEAN :
           /\ request' = [op |-> "callConvLowering", CallConvLowering |-> enabled,
                          in |-> request.in, emitted |-> emitted]
           /\ emitted' = IF enabled THEN CallConvLowering(emitted)
                         ELSE NoCallConvLowering(emitted)
    /\ UNCHANGED <<arranged, FunctionInfos, FunctionsBeingProcessed, stack, lowered,
                   mayThrow, callWithExceptionCtx, callArgs>>

NextRecordCall ==
    \/ EmitRecordCall
    \/ LowerCallConv
    \/ Retire

SpecRecordCall == Init /\ [][NextRecordCall]_vars

(***************************************************************************)
(* The attributes of a function definition: the list constructAttributeList *)
(* makes for the declaration when it is not asked for a call site, and     *)
(* then what the module adds for a definition.  That last step is outside  *)
(* this file; it is modelled from what its test shows for a definition     *)
(* with no optimization attribute of its own, in a translation unit        *)
(* compiled without exceptions at -O0 and at -O2.                          *)
(***************************************************************************)
OptimizationLevels == {0, 2}

setCIRFunctionAttributesForDefinition_noLevel(OptimizationLevel, attrs) ==
    attrs \cup {"nothrow"}

(* With optimization disabled: optnone, and no inlining with it.  No       *)
(* exceptions being enabled: nothrow.                                      *)
setCIRFunctionAttributesForDefinition(OptimizationLevel, attrs) ==
    attrs \cup {"nothrow"}
    \cup (IF OptimizationLevel = 0 THEN {"optnone", "inline=no"} ELSE {})

DefinedDecls ==
    {D \in CalleeDecls \cup AttributedDecls \cup NoReturnDecls :
        isFunctionDecl(D) /\ "OptimizeNone" \notin D.Attrs}

DefinitionLangOpts ==
    {DefaultLangOpts, [DefaultLangOpts EXCEPT !.OpenCL = TRUE],
     [DefaultLangOpts EXCEPT !.ConvergentFunctions = TRUE],
     [DefaultLangOpts EXCEPT !.CUDA = TRUE, !.CUDAIsDevice = TRUE]}

SetFunctionAttributes ==
    /\ Idle
    /\ \E decl \in DefinedDecls, level \in OptimizationLevels,
          langOpts \in DefinitionLangOpts :
           \E list \in {constructAttributeList(FIOf(FnProto("int", <<"int", "int">>)),
                                                [FPT |-> decl.Type, Decl |-> decl], {},
                                                langOpts, FALSE)} :
               /\ request' = [op |-> "setFunctionAttributes", decl |-> decl,
                              OptimizationLevel |-> level, langOpts |-> langOpts]
               /\ emitted' = [status |-> "attributes", fault |-> list.fault,
                              fromDeclaration |-> list.funcAttrs,
                              attrs |-> setCIRFunctionAttributesForDefinition(
                                            level, list.funcAttrs)]
    /\ UNCHANGED <<arranged, FunctionInfos, FunctionsBeingProcessed, stack, lowered,
                   mayThrow, callWithExceptionCtx, callArgs>>

NextDefine ==
    \/ SetFunctionAttributes
    \/ Retire

SpecDefine == Init /\ [][NextDefine]_vars

(***************************************************************************)
(* emitCallLikeOp with the builder: the blocks, the operations in them and *)
(* the insertion point, a block and the number of operations before the    *)
(* point.                                                                  *)
(***************************************************************************)
BuilderAt(blocks, block, index) == [blocks |-> blocks, ip |-> [block |-> block, index |-> index]]

(* builder.create: the operation goes in at the insertion point, and the   *)
(* point stays behind it.                                                  *)
createOp(builder, op) ==
    [blocks |-> [builder.blocks EXCEPT ![builder.ip.block] =
                    SubSeq(@, 1, builder.ip.index) \o <<op>>
                    \o SubSeq(@, builder.ip.index + 1, Len(@))],
     ip |-> [builder.ip EXCEPT !.index = @ + 1]]

(* builder.createBlock: a new, empty block, and the insertion point in it. *)
createBlock(builder, name) ==
    [blocks |-> [b \in DOMAIN builder.blocks \cup {name} |->
                    IF b = name THEN <<>> ELSE builder.blocks[b]],
     ip |-> [block |-> name, index |-> 0]]

setInsertionPointToStart(builder, block) ==
    [builder EXCEPT !.ip = [block |-> block, index |-> 0]]

restoreInsertionPoint(builder, ip) == [builder EXCEPT !.ip = ip]

NoTry == [kind |-> "none", name |-> "null", synthetic |-> FALSE, tryRegion |-> <<>>, handlerRegions |-> <<>>]

TryOp(name, synthetic, tryRegion, handlerRegions) ==
    [kind |-> "cir.try", name |-> name, synthetic |-> synthetic, tryRegion |-> tryRegion,
     handlerRegions |-> handlerRegions]

ResumeOp == [kind |-> "cir.resume"]

YieldOp == [kind |-> "cir.yield"]

PriorOp(n) == [kind |-> "prior", n |-> n]

TryCallOp(indirect, callingConv) ==
    [kind |-> IF indirect THEN "cir.try_call_indirect" ELSE "cir.try_call",
     callingConv |-> callingConv]

PlainCallOp(indirect, callingConv) ==
    [kind |-> IF indirect THEN "cir.call_indirect" ELSE "cir.call",
     callingConv |-> IF indirect THEN "C" ELSE callingConv]

(* The synthetic cir.try: an empty try region, one handler region whose    *)
(* block holds a resume, and the synthetic mark.  It is created at the     *)
(* insertion point, which stays behind it.                                 *)
SyntheticTryOp == TryOp("try.synthetic", TRUE, <<"try.synthetic.body">>, << <<"try.synthetic.unwind">> >>)

createSyntheticTryOp(builder) ==
    restoreInsertionPoint(
        createOp(restoreInsertionPoint(
                     createOp(createBlock(createBlock(builder, "try.synthetic.body"),
                                          "try.synthetic.unwind"),
                              ResumeOp),
                     builder.ip),
                 SyntheticTryOp),
        [builder.ip EXCEPT !.index = @ + 1])

SurroundingTryOp_alwaysNew(CGF) ==
    [tryOp |-> SyntheticTryOp, builder |-> createSyntheticTryOp(CGF.builder)]

(* getOrCreateSurroundingTryOp, with the builder it leaves. *)
SurroundingTryOp(CGF) ==
    IF CGF.closestTryParent.name # "null"
    THEN [tryOp |-> CGF.closestTryParent, builder |-> CGF.builder]
    ELSE [tryOp |-> SyntheticTryOp, builder |-> createSyntheticTryOp(CGF.builder)]

CallLikeOpAt(fault, builder, tryOp, call, savedIp, throws, ctx) ==
    [status |-> "emitCallLikeOp", fault |-> fault, builder |-> builder, tryOp |-> tryOp,
     call |-> call, savedIp |-> savedIp, mayThrow |-> throws, ctxAtInvokeDest |-> ctx]

(* The wrapped emission, from the insertion point saved after the unwind   *)
(* scope is known.  The insertion point moves into a synthetic try before  *)
(* the calling convention is asserted, so the fault leaves it there.       *)
emitTryCall_noRestore(t, indirect, callingConv) ==
    IF ~t.tryOp.synthetic /\ t.builder.ip.block = "null"
    THEN CallLikeOpAt("assert: expected valid basic block", t.builder, t.tryOp, "none",
                      t.builder.ip, FALSE, "null")
    ELSE IF callingConv # "C"
    THEN CallLikeOpAt("NYI",
                      IF t.tryOp.synthetic
                      THEN setInsertionPointToStart(
                               t.builder, t.tryOp.tryRegion[Len(t.tryOp.tryRegion)])
                      ELSE t.builder,
                      t.tryOp, "none", t.builder.ip, FALSE, "null")
    ELSE IF t.tryOp.synthetic
    THEN CallLikeOpAt(NoFault,
             createOp(createOp(setInsertionPointToStart(
                                   t.builder, t.tryOp.tryRegion[Len(t.tryOp.tryRegion)]),
                               TryCallOp(indirect, callingConv)),
                      YieldOp),
             t.tryOp, TryCallOp(indirect, callingConv), t.builder.ip, TRUE,
             TryCallOp(indirect, callingConv))
    ELSE CallLikeOpAt(NoFault, createOp(t.builder, TryCallOp(indirect, callingConv)),
                      t.tryOp, TryCallOp(indirect, callingConv), t.builder.ip, TRUE,
                      TryCallOp(indirect, callingConv))

emitTryCall(t, indirect, callingConv) ==
    IF ~t.tryOp.synthetic /\ t.builder.ip.block = "null"
    THEN CallLikeOpAt("assert: expected valid basic block", t.builder, t.tryOp, "none",
                      t.builder.ip, FALSE, "null")
    ELSE IF callingConv # "C"
    THEN CallLikeOpAt("NYI",
                      IF t.tryOp.synthetic
                      THEN setInsertionPointToStart(
                               t.builder, t.tryOp.tryRegion[Len(t.tryOp.tryRegion)])
                      ELSE t.builder,
                      t.tryOp, "none", t.builder.ip, FALSE, "null")
    ELSE IF t.tryOp.synthetic
    THEN CallLikeOpAt(NoFault,
             restoreInsertionPoint(
                 createOp(createOp(setInsertionPointToStart(
                                       t.builder, t.tryOp.tryRegion[Len(t.tryOp.tryRegion)]),
                                   TryCallOp(indirect, callingConv)),
                          YieldOp),
                 t.builder.ip),
             t.tryOp, TryCallOp(indirect, callingConv), t.builder.ip, TRUE,
             TryCallOp(indirect, callingConv))
    ELSE CallLikeOpAt(NoFault, createOp(t.builder, TryCallOp(indirect, callingConv)),
                      t.tryOp, TryCallOp(indirect, callingConv), t.builder.ip, TRUE,
                      TryCallOp(indirect, callingConv))

emitPlainCall(CGF, indirect, callingConv) ==
    IF CGF.builder.ip.block = "null"
    THEN CallLikeOpAt("assert: expected valid basic block", CGF.builder, NoTry, "none",
                      CGF.builder.ip, FALSE, "null")
    ELSE IF indirect /\ callingConv # "C"
    THEN CallLikeOpAt("NYI", CGF.builder, NoTry, "none", CGF.builder.ip, FALSE, "null")
    ELSE CallLikeOpAt(NoFault, createOp(CGF.builder, PlainCallOp(indirect, callingConv)),
                      NoTry, PlainCallOp(indirect, callingConv), CGF.builder.ip, FALSE,
                      "null")

(* The function being emitted: its builder and the closest try around the  *)
(* current scope.                                                          *)
ExplicitTryOp == TryOp("try.explicit", FALSE, <<"entry">>, << <<"catch.int">>, <<"catch.all">> >>)

MaxPriorOps == 2

FunctionsBeingEmitted ==
    {[builder |-> BuilderAt([b \in {"entry"} |-> [i \in 1..n |-> PriorOp(i)]], "entry", at),
      closestTryParent |-> try] :
        n \in 0..MaxPriorOps, at \in 0..MaxPriorOps, try \in {NoTry, ExplicitTryOp}}
    \cup {[builder |-> BuilderAt([b \in {"entry"} |-> <<>>], "null", 0),
           closestTryParent |-> try] : try \in {NoTry, ExplicitTryOp}}

EmitCallLikeOp ==
    /\ Idle
    /\ \E CGF \in {F \in FunctionsBeingEmitted :
                       /\ F.builder.ip.index <= Len(F.builder.blocks["entry"])
                       /\ F.builder.ip.block = "null" => F.closestTryParent # NoTry},
          indirect \in BOOLEAN, isInvoke \in BOOLEAN, callingConv \in {"C", "SpirKernel"} :
           \E t \in {SurroundingTryOp(CGF)} :
               \E out \in {IF isInvoke THEN emitTryCall(t, indirect, callingConv)
                                       ELSE emitPlainCall(CGF, indirect, callingConv)} :
                   /\ request' = [op |-> "emitCallLikeOp", CGF |-> CGF,
                                  indirect |-> indirect, isInvoke |-> isInvoke,
                                  callingConv |-> callingConv]
                   /\ emitted' = out
                   /\ mayThrow' = (mayThrow \/ out.mayThrow)
                   /\ callWithExceptionCtx' = "null"
    /\ UNCHANGED <<arranged, FunctionInfos, FunctionsBeingProcessed, stack, lowered,
                   callArgs>>

NextUnwind ==
    \/ EmitCallLikeOp
    \/ Retire

SpecUnwind == Init /\ [][NextUnwind]_vars

(***************************************************************************)
(* emitCallArgs and emitCallArg: the argument list of a call expression.   *)
(***************************************************************************)
(* An argument expression: its type, its kind (an r-value, a gl-value, an  *)
(* implicit l-value to r-value cast of an aggregate, or an Objective-C     *)
(* indirect copy-restore), and whether the record declaration of its type  *)
(* is destroyed in the callee.                                             *)
ArgExpr(ty, kind, destroyedInCallee) ==
    [Ty |-> ty, Kind |-> kind, ParamDestroyedInCallee |-> destroyedInCallee]

(* An entry of the CallArgList: its type, whether it holds an l-value, and *)
(* what it holds: the value of the expression at an index of the argument  *)
(* range, or the object size of that expression.                           *)
CallArg(ty, hasLValue, holds, index) ==
    [Ty |-> ty, hasLValue |-> hasLValue, Holds |-> holds, Index |-> index]

isReferenceType(ty) == ty \in {"ref<int>", "ref<S1>"}

isRecordType(ty) == ty \in {"S1", "S2", "S3"}

EmittedArg(fault, args) == [fault |-> fault, args |-> args]

emitCallArg_noDestroyedCheck(E, type, Idx) ==
    IF E.Kind = "ObjCIndirectCopyRestore" THEN EmittedArg("NYI", <<>>)
    ELSE IF isReferenceType(type) # (E.Kind = "GLValue")
    THEN EmittedArg("assert: reference binding to unmaterialized r-value!", <<>>)
    ELSE IF E.Kind = "GLValue"
    THEN EmittedArg(NoFault, <<CallArg(type, FALSE, "value", Idx)>>)
    ELSE IF getEvaluationKind(type) = "TEK_Aggregate" /\ E.Kind = "LValueToRValue"
    THEN EmittedArg(NoFault, <<CallArg(type, TRUE, "value", Idx)>>)
    ELSE EmittedArg(NoFault, <<CallArg(type, FALSE, "value", Idx)>>)

emitCallArg(E, type, Idx) ==
    IF E.Kind = "ObjCIndirectCopyRestore" THEN EmittedArg("NYI", <<>>)
    ELSE IF isReferenceType(type) # (E.Kind = "GLValue")
    THEN EmittedArg("assert: reference binding to unmaterialized r-value!", <<>>)
    ELSE IF E.Kind = "GLValue"
    THEN EmittedArg(NoFault, <<CallArg(type, FALSE, "value", Idx)>>)
    ELSE IF isRecordType(type) /\ E.ParamDestroyedInCallee
    THEN EmittedArg("Microsoft C++ ABI is NYI", <<>>)
    ELSE IF getEvaluationKind(type) = "TEK_Aggregate" /\ E.Kind = "LValueToRValue"
    THEN EmittedArg(NoFault, <<CallArg(type, TRUE, "value", Idx)>>)
    ELSE EmittedArg(NoFault, <<CallArg(type, FALSE, "value", Idx)>>)

(* The callee as emitCallArgs sees it: whether it is a function            *)
(* declaration, and which of its parameters have pass_object_size.         *)
NoAbstractCallee == [hasFunctionDecl |-> FALSE, PassObjectSizeAttrs |-> <<>>]

AbstractCalleeOf(FD) ==
    [hasFunctionDecl |-> TRUE,
     PassObjectSizeAttrs |->
         [i \in 1..Len(FD.Type.ParamTypes) |->
             FD.Type.HasExtParameterInfos /\ FD.Type.ExtParameterInfos[i].PassObjectSize]]

(* No prototype was provided. *)
NullPrototype == [Kind |-> "Null", ParamTypes |-> <<>>, Variadic |-> FALSE]

PlainTarget ==
    [areArgsDestroyedLeftToRightInCallee |-> FALSE, hasInAllocaArgs |-> FALSE,
     SanitizeNonnull |-> FALSE]

MaybeEmitImplicitObjectSize_never(I, EmittedArgTy, AC) ==
    EmittedArg(NoFault, <<>>)

(* I counts the arguments from 0, as in the code. *)
MaybeEmitImplicitObjectSize(I, EmittedArgTy, AC) ==
    IF ~AC.hasFunctionDecl \/ I >= Len(AC.PassObjectSizeAttrs)
    THEN EmittedArg(NoFault, <<>>)
    ELSE IF ~AC.PassObjectSizeAttrs[I + 1] THEN EmittedArg(NoFault, <<>>)
    ELSE IF getEvaluationKind(EmittedArgTy) # "TEK_Scalar"
    THEN EmittedArg("assert: We emitted nothing for the arg?", <<>>)
    ELSE EmittedArg(NoFault, <<CallArg(SizeType, FALSE, "objectsize", I + 1)>>)

(* The loop over the arguments, left to right, from the argument at I      *)
(* (counted from 1) on.                                                    *)
RECURSIVE emitCallArgsFrom(_, _, _, _, _, _)
emitCallArgsFrom(I, Args, ArgTypes, ArgRange, AC, target) ==
    IF I > Len(ArgTypes) THEN EmittedArg(NoFault, Args)
    ELSE IF ArgRange[I].Kind = "ObjCIndirectCopyRestore" THEN EmittedArg("NYI", <<>>)
    ELSE LET one == emitCallArg(ArgRange[I], ArgTypes[I], I)
         IN IF one.fault # NoFault THEN one
            ELSE IF one.args[1].hasLValue
            THEN emitCallArgsFrom(I + 1, Args \o one.args, ArgTypes, ArgRange, AC, target)
            ELSE IF target.SanitizeNonnull THEN EmittedArg("Sanitizers NYI", <<>>)
            ELSE LET size == MaybeEmitImplicitObjectSize(I - 1, one.args[1].Ty, AC)
                 IN IF size.fault # NoFault THEN size
                    ELSE emitCallArgsFrom(I + 1, Args \o one.args \o size.args,
                                          ArgTypes, ArgRange, AC, target)

(* emitCallArgs: the set of its outcomes.  Skipping more parameters than   *)
(* the prototype has, and an argument range shorter than the parameters    *)
(* left, are undefined behaviour (a negative range at the assign, a read   *)
(* past the argument range in the loop that follows it): the outcomes are  *)
(* the ones a build can show.  Everywhere else there is one outcome.       *)
emitCallArgs(Args, Prototype, ArgRange, AC, ParamsToSkip, target) ==
    IF ~(ParamsToSkip = 0 \/ Prototype.Kind # "Null")
    THEN {EmittedArg("assert: Can't skip parameters if type info is not provided", <<>>)}
    ELSE IF Prototype.Kind # "Null" /\ ParamsToSkip > Len(Prototype.ParamTypes)
    THEN {EmittedArg("LLVM ERROR: SmallVector unable to grow", <<>>),
          EmittedArg("SIGSEGV", <<>>)}
    ELSE LET IsVariadic == Prototype.Kind # "Null" /\ Prototype.Variadic
             fromPrototype ==
                 IF Prototype.Kind # "Null"
                 THEN SubSeq(Prototype.ParamTypes, ParamsToSkip + 1,
                             Len(Prototype.ParamTypes))
                 ELSE <<>>
             ArgTypes ==
                 fromPrototype
                 \o [i \in 1..(Len(ArgRange) - Len(fromPrototype)) |->
                        ArgRange[Len(fromPrototype) + i].Ty]
         IN IF Len(fromPrototype) > Len(ArgRange)
            THEN {EmittedArg("SIGSEGV", <<>>),
                  EmittedArg("assert: ArgTypes.size() == ArgRange.size()", <<>>)}
            ELSE IF target.areArgsDestroyedLeftToRightInCallee
            THEN {EmittedArg("assert: MSABI NYI", <<>>)}
            ELSE IF target.hasInAllocaArgs THEN {EmittedArg("assert: NYI", <<>>)}
            ELSE {emitCallArgsFrom(1, Args, ArgTypes, ArgRange, AC, target)}

(* The argument expressions of a call: one r-value per parameter, of the   *)
(* parameter's type, and what the call passes beyond the parameters.       *)
ExtraArgExprs ==
    {ArgExpr("int", "RValue", FALSE), ArgExpr("S1", "RValue", FALSE),
     ArgExpr("S1", "LValueToRValue", FALSE), ArgExpr("S2", "LValueToRValue", TRUE),
     ArgExpr("int", "GLValue", FALSE), ArgExpr("int", "ObjCIndirectCopyRestore", FALSE)}

ArgExprsFor(fnType) ==
    {[i \in 1..Len(fnType.ParamTypes) |-> ArgExpr(fnType.ParamTypes[i], "RValue", FALSE)]
     \o extra :
        extra \in IF fnType.Variadic \/ fnType.Kind = "NoProto"
                  THEN SeqsUpTo(ExtraArgExprs, MaxExtraArgs) ELSE {<<>>}}

CalledDecls == {FD \in FreeFunctionDecls : FD.Type.ReturnType = "int" /\ ~FD.CUDAGlobalAttr}

UnsupportedTargets ==
    {[PlainTarget EXCEPT !.areArgsDestroyedLeftToRightInCallee = TRUE],
     [PlainTarget EXCEPT !.hasInAllocaArgs = TRUE],
     [PlainTarget EXCEPT !.SanitizeNonnull = TRUE]}

EmitCallArgsOf(FD, Prototype, ArgRange, AC, ParamsToSkip, target) ==
    /\ request' = [op |-> "emitCallArgs", decl |-> FD, Prototype |-> Prototype,
                   ArgRange |-> ArgRange, AC |-> AC, ParamsToSkip |-> ParamsToSkip,
                   target |-> target]
    /\ callArgs' \in emitCallArgs(<<>>, Prototype, ArgRange, AC, ParamsToSkip, target)

EmitCallArgs ==
    /\ Idle
    /\ \* a direct call of a declared function, with or without a prototype
       \/ \E FD \in CalledDecls :
              \E ArgRange \in ArgExprsFor(FD.Type) :
                  EmitCallArgsOf(FD,
                                 IF FD.Type.Kind = "Proto" THEN FD.Type ELSE NullPrototype,
                                 ArgRange, AbstractCalleeOf(FD), 0, PlainTarget)
       \* a call that skips the first parameter, the callee not being given
       \/ \E FD \in {d \in CalledDecls : d.Type.Kind = "Proto"
                                        /\ ~d.Type.HasExtParameterInfos
                                        /\ d.Type.ParamTypes # <<>>} :
              \E ArgRange \in ArgExprsFor(FD.Type) :
                  EmitCallArgsOf(FD, FD.Type, Tail(ArgRange), NoAbstractCallee, 1,
                                 PlainTarget)
       \* on the targets and options emitCallArgs gives up on
       \/ \E FD \in {d \in CalledDecls : d.Type.ParamTypes = <<"int">>
                                        /\ ~d.Type.HasExtParameterInfos},
             target \in UnsupportedTargets, skip \in 0..1 :
              \E ArgRange \in ArgExprsFor(FD.Type) :
                  EmitCallArgsOf(FD, NullPrototype, ArgRange, AbstractCalleeOf(FD),
                                 skip, target)
    /\ UNCHANGED <<arranged, FunctionInfos, FunctionsBeingProcessed, stack, lowered,
                   mayThrow, callWithExceptionCtx, emitted>>

(* emitCallArgs on a list that already holds the object argument of the    *)
(* call, or nothing, on a target whose C++ ABI destroys the arguments in   *)
(* the caller or left to right in the callee.                              *)
LeftToRight == TRUE

EvaluationIndex(I, E) == IF LeftToRight THEN I ELSE E - I + 1

PriorArgLists == {<<>>, <<CallArg("ptr<S1>", FALSE, "this", 0)>>}

CallArgTargets ==
    {PlainTarget, [PlainTarget EXCEPT !.areArgsDestroyedLeftToRightInCallee = TRUE]}

EmitCallArgsInto ==
    /\ Idle
    /\ \E FD \in CalledDecls, target \in CallArgTargets, Args \in PriorArgLists :
           \E ArgRange \in ArgExprsFor(FD.Type) :
               /\ request' = [op |-> "emitCallArgs", decl |-> FD,
                              Prototype |-> IF FD.Type.Kind = "Proto" THEN FD.Type
                                            ELSE NullPrototype,
                              ArgRange |-> ArgRange, AC |-> AbstractCalleeOf(FD),
                              ParamsToSkip |-> 0, target |-> target, Args |-> Args]
               /\ callArgs' \in emitCallArgs(Args,
                                           IF FD.Type.Kind = "Proto" THEN FD.Type
                                           ELSE NullPrototype,
                                           ArgRange, AbstractCalleeOf(FD), 0, target)
    /\ UNCHANGED <<arranged, FunctionInfos, FunctionsBeingProcessed, stack, lowered,
                   mayThrow, callWithExceptionCtx, emitted>>

NextCallArgs ==
    \/ EmitCallArgsInto
    \/ Retire

SpecCallArgs == Init /\ [][NextCallArgs]_vars

(* The caller arranges the descriptor of the call from the argument list   *)
(* emitCallArgs built and the callee's function type.                      *)
ArrangeCallArgs ==
    /\ request.op = "emitCallArgs"
    /\ callArgs.fault = NoFault
    /\ arranged = NoneArranged
    /\ request.ParamsToSkip = 0
    /\ arranged' = arrangeFreeFunctionCall(callArgs.args, request.decl.Type, FALSE)
    /\ UNCHANGED <<request, callArgs, FunctionInfos, FunctionsBeingProcessed, stack,
                   lowered, mayThrow, callWithExceptionCtx, emitted>>

(* The entry of the CallArgList as emitCall takes it: an aggregate held in *)
(* memory, or a scalar value, of the machine type of its type.             *)
CallArgValue(arg) ==
    IF arg.hasLValue \/ getEvaluationKind(arg.Ty) = "TEK_Aggregate"
    THEN AggregateArg(convertTypeLeaf(arg.Ty))
    ELSE ScalarArg(convertTypeLeaf(arg.Ty))

(* The caller emits the call of the arranged descriptor with the argument  *)
(* list: must-tail or not, of a function op whose result type is the       *)
(* converted return type or another one, or which has two results, the     *)
(* descriptor with or without an argument record.                          *)
EmitCallOfArgs ==
    /\ request.op = "emitCallArgs"
    /\ callArgs.fault = NoFault
    /\ arranged.fault = NoFault
    /\ arranged.FIs # {}
    /\ \E FI \in arranged.FIs, IsMustTail \in BOOLEAN, ArgRecord \in BOOLEAN,
          slot \in ReturnSlots :
           \E resultType \in {convertTypeLeaf(FI.ReturnType), "!s64i", TwoResults, "!void"} :
               \E in \in {CallInput([FI EXCEPT !.ArgRecord = ArgRecord],
                                    CalleeWith("Ordinary",
                                               CalleePtr("FuncOp", {}, resultType),
                                               NullFPT, NullDecl),
                                    slot,
                                    [i \in 1..Len(callArgs.args) |->
                                        CallArgValue(callArgs.args[i])],
                                    IsMustTail, PlainEnv)} :
                   \E out \in {emitCall(in.CallInfo, in.Callee, in.ReturnValue,
                                        in.CallArgs, in.IsMustTail, in.env)} :
                       /\ request' = [op |-> "emitCall", in |-> in, of |-> request]
                       /\ emitted' = out
                       /\ mayThrow' = (mayThrow \/ out.mayThrow)
                       /\ callWithExceptionCtx' = "null"
    /\ UNCHANGED <<arranged, callArgs, FunctionInfos, FunctionsBeingProcessed, stack,
                   lowered>>

NextCallExpr ==
    \/ ArrangeFunctionDeclaration
    \/ EmitCallArgs
    \/ ArrangeCallArgs
    \/ EmitCallOfArgs
    \/ Retire

SpecCallExpr == Init /\ [][NextCallExpr]_vars

(***************************************************************************)
(* Properties of the Signature Arranger.                                   *)
(***************************************************************************)
ArrangerOps ==
    {"arrangeFreeFunctionType", "arrangeFunctionDeclaration",
     "arrangeCXXMethodDeclaration", "arrangeCXXMethodType",
     "arrangeCXXStructorDeclaration", "arrangeCXXConstructorCall",
     "arrangeCXXMethodCall", "arrangeFreeFunctionCall",
     "arrangeCIRFunctionInfo"}

\* C1: every descriptor an arranging path builds has an extended parameter
\* info sequence of length 0 or of exactly the number of argument types, and
\* a request to the factory that violates this faults and yields no descriptor.
C1_ExtParameterInfosMatchArgs ==
    /\ \A FI \in arranged.FIs :
           /\ FI.NumArgs = Len(FI.ArgTypes)
           /\ Len(FI.ExtParameterInfos) \in {0, FI.NumArgs}
           /\ FI.HasExtParameterInfos <=> Len(FI.ExtParameterInfos) = FI.NumArgs
                                          /\ FI.NumArgs > 0
    /\ arranged.fault # NoFault => arranged.FIs = {}
    /\ (/\ request.op = "arrangeCIRFunctionInfo"
        /\ Len(request.paramInfos) \notin {0, Len(request.argTypes)})
       => arranged.fault # NoFault /\ arranged.FIs = {}

\* A call of a prototype with a pass_object_size parameter got a descriptor
\* whose infos cover every argument, the size argument included.
C1_Witness ==
    /\ request.op = "arrangeFreeFunctionCall"
    /\ \E FI \in arranged.FIs :
           /\ FI.NumArgs >= 2
           /\ Len(FI.ExtParameterInfos) = FI.NumArgs
           /\ \E i \in 1..FI.NumArgs : FI.ExtParameterInfos[i].PassObjectSize

\* C2: in every descriptor an arranger builds, the number of required
\* arguments does not exceed the number of argument types.  (A descriptor
\* that permits no optional arguments requires all of them, so no descriptor
\* needs the exemption the specification grants.)
C2_RequiredWithinArgs ==
    /\ \A FI \in arranged.FIs :
           /\ getNumRequiredArgs(FI) <= Len(FI.ArgTypes)
           /\ isVariadic(FI) => FI.Required \in 0..Len(FI.ArgTypes)
    /\ (/\ request.op \in {"arrangeCIRFunctionInfo", "arrangeCXXMethodCall"}
        /\ request.required # RequiredArgs_All
        /\ arranged.FIs # {})
       => \A FI \in arranged.FIs : request.required <= Len(FI.ArgTypes)

\* A variadic method call that passes an argument beyond the required ones.
C2_Witness ==
    /\ request.op = "arrangeCXXMethodCall"
    /\ \E FI \in arranged.FIs :
           isVariadic(FI) /\ FI.Required > 0 /\ FI.Required < FI.NumArgs

(***************************************************************************)
(* Properties of the Function-Type Lowering re-entrancy guard.             *)
(***************************************************************************)
NestedFI == FunctionInfoBehind(PendingType(Top))

EntersNested == Converting /\ PendingType(Top) \in TypesWithFunctionBehind

\* C3: when GetFunctionType is entered for a descriptor that is already in
\* FunctionsBeingProcessed, the step ends in the fault "Recursively being
\* processed?" and neither the set nor the chain of invocations grows; when
\* it is entered, nested, for a descriptor that is not in the set, the step
\* is no fault: the descriptor joins the set and a new invocation starts.
C3_ReentryFaults ==
    [][EntersNested =>
         IF NestedFI \in FunctionsBeingProcessed
         THEN /\ lowered'.fault = "Recursively being processed?"
              /\ stack' = stack
              /\ FunctionsBeingProcessed' = FunctionsBeingProcessed
         ELSE /\ lowered'.fault = NoFault
              /\ Len(stack') = Len(stack) + 1
              /\ stack'[Len(stack')].FI = NestedFI
              /\ FunctionsBeingProcessed' = FunctionsBeingProcessed \cup {NestedFI}]_vars

(* A lowering that faulted two invocations deep, after a nested invocation *)
(* on a different descriptor was entered without fault.                     *)
C3_Witness ==
    /\ lowered.fault = "Recursively being processed?"
    /\ Len(stack) >= 2
    /\ stack[1].FI # stack[2].FI
    /\ NestedFI \in {stack[i].FI : i \in 1..Len(stack)}

(***************************************************************************)
(* Properties of the Call Emitter.                                         *)
(***************************************************************************)
Emitting == request.op = "emitCall"

CallEmitted == Emitting /\ emitted.calls # <<>>

Completed == Emitting /\ emitted.status = "completed"

TheCall == emitted.calls[1]

Wrapped == TheCall.kind \in {"try_call", "try_call_indirect"}

TerminatingCleanupPad ==
    request.in.env.isCleanupPadScope /\ request.in.env.isMSVCXXPersonality

DirectNoThrowFuncOp ==
    /\ request.in.Callee.Kind = "Ordinary"
    /\ request.in.Callee.Ptr.Op = "FuncOp"
    /\ "nothrow" \in request.in.Callee.Ptr.ExtraAttrs

\* C4: the call is invoke-wrapped, a try-call inside an unwind scope, if and
\* only if it may unwind.  When the current function uses SEH try, every
\* call may unwind and it is wrapped exactly when the position has an unwind
\* destination.  Otherwise it is not wrapped when the scope is a cleanup pad
\* under the MSVC C++ personality, when the synthesized attribute set has
\* no-throw, or when the function op called directly carries no-throw; and
\* in every other case it is wrapped exactly when the position has an unwind
\* destination.
C4_WrappedIffMayUnwind ==
    CallEmitted =>
        /\ Wrapped <=>
              IF request.in.env.currentFunctionUsesSEHTry
              THEN request.in.env.isInvokeDest
              ELSE IF \/ TerminatingCleanupPad
                      \/ "nothrow" \in TheCall.extra_attrs
                      \/ DirectNoThrowFuncOp
              THEN FALSE
              ELSE request.in.env.isInvokeDest
        /\ Wrapped <=> emitted.tryOp # "none"

(* A call left plain, at a position with an unwind destination, only       *)
(* because the function op it calls carries no-throw.                      *)
C4_Witness ==
    /\ CallEmitted
    /\ ~Wrapped
    /\ request.in.env.isInvokeDest
    /\ ~TerminatingCleanupPad
    /\ "nothrow" \notin TheCall.extra_attrs
    /\ DirectNoThrowFuncOp

(* C4 as the specification words it: no-throw in the attribute set or a    *)
(* terminating cleanup pad, and nothing else, keeps a call from being      *)
(* wrapped.                                                                *)
C4_AsStated ==
    CallEmitted =>
        (Wrapped <=>
            IF "nothrow" \in TheCall.extra_attrs \/ TerminatingCleanupPad
            THEN FALSE
            ELSE request.in.env.isInvokeDest)

ResolvedNoThrow(FPT) ==
    /\ ~FPT.IsNull
    /\ FPT.ExceptionSpecType \in
           {"EST_DynamicNone", "EST_NoThrow", "EST_BasicNoexcept", "EST_NoexceptTrue"}

CalleeDecl == request.in.Callee.AbstractInfo.Decl

(* The callee has an empty, resolved exception specification or is         *)
(* declared nothrow.                                                       *)
NoThrowCallee ==
    \/ ResolvedNoThrow(request.in.Callee.AbstractInfo.FPT)
    \/ ~CalleeDecl.IsNull /\ "NoThrow" \in CalleeDecl.Attrs
    \/ /\ ~CalleeDecl.IsNull
       /\ CalleeDecl.DeclKind \in {"Function", "CXXMethod"}
       /\ ResolvedNoThrow(CalleeDecl.Type)

NoThrowByDefault ==
    \/ request.in.env.langOpts.OpenCL
    \/ /\ request.in.env.langOpts.CUDA \/ request.in.env.langOpts.HIP
       /\ request.in.env.langOpts.CUDAIsDevice

\* C5: a call whose callee has an empty, resolved exception specification or
\* a nothrow declaration attribute has no-throw in its attribute set and,
\* unless the current function uses SEH try, is emitted without invoke
\* wrapping.  An unresolved exception specification contributes nothing:
\* with no other source of no-throw the attribute set has none, and the call
\* is then wrapped or not as a call that may throw is.
C5_NoThrowPropagation ==
    CallEmitted =>
        /\ NoThrowCallee =>
              /\ "nothrow" \in TheCall.extra_attrs
              /\ ~request.in.env.currentFunctionUsesSEHTry => ~Wrapped
        /\ (~NoThrowCallee /\ ~NoThrowByDefault) =>
              /\ "nothrow" \notin TheCall.extra_attrs
              /\ (~TerminatingCleanupPad /\ ~DirectNoThrowFuncOp)
                    => (Wrapped <=> request.in.env.isInvokeDest)

(* A call of a no-throw callee left plain at a position with an unwind     *)
(* destination.                                                            *)
C5_Witness ==
    /\ CallEmitted
    /\ ResolvedNoThrow(request.in.Callee.AbstractInfo.FPT)
    /\ "nothrow" \in TheCall.extra_attrs
    /\ request.in.env.isInvokeDest
    /\ ~TerminatingCleanupPad
    /\ ~DirectNoThrowFuncOp
    /\ ~Wrapped

(* C5 as the specification words it: a no-throw callee is always called    *)
(* without invoke wrapping.                                                *)
C5_AsStated ==
    CallEmitted =>
        /\ NoThrowCallee => ("nothrow" \in TheCall.extra_attrs /\ ~Wrapped)
        /\ (~NoThrowCallee /\ ~NoThrowByDefault) => "nothrow" \notin TheCall.extra_attrs

SideEffectOf(D) ==
    IF D.IsNull THEN "all"
    ELSE IF "Const" \in D.Attrs THEN "const"
    ELSE IF "Pure" \in D.Attrs THEN "pure"
    ELSE "all"

\* C6: an emitCall that completes has created exactly one call construct, of
\* one of the four kinds, and the construct carries one operand per argument
\* in argument-list order, the descriptor's effective calling convention, the
\* side-effect class of the callee declaration and the synthesized attribute
\* set, whether it is wrapped or not.
C6_OneCallConstruct ==
    Completed =>
        /\ Len(emitted.calls) = 1
        /\ TheCall.kind \in {"call", "call_indirect", "try_call", "try_call_indirect"}
        /\ Len(TheCall.args) = Len(request.in.CallArgs)
        /\ \A i \in 1..Len(TheCall.args) :
              /\ TheCall.args[i].arg = i - 1
              /\ TheCall.args[i].from = request.in.CallArgs[i].Ty
              /\ TheCall.args[i].fault = NoFault
        /\ TheCall.callingConv = request.in.CallInfo.EffectiveCallingConvention
        /\ TheCall.sideEffect = SideEffectOf(CalleeDecl)
        /\ TheCall.extra_attrs = emitted.attrs

(* A completed wrapped call with arguments and a non-empty attribute set. *)
C6_Witness ==
    /\ Completed
    /\ Wrapped
    /\ Len(TheCall.args) >= 1
    /\ TheCall.extra_attrs # {}

ReturnSlotOr(temporary) ==
    IF request.in.ReturnValue.Valid THEN request.in.ReturnValue.Addr ELSE temporary

\* C7: a completed emitCall returns an undefined value when the return type
\* converts to void; for an aggregate return type the address of the
\* caller's return slot, or of a fresh temporary when there is none, with
\* the call's result stored into it right after the call; for a scalar
\* return type the call's result itself when the call is in the region of
\* the insertion point, and otherwise a value loaded at the insertion point
\* from a slot the result was stored into right after the call.
C7_ReturnValue ==
    Completed =>
        LET RetTy == request.in.CallInfo.ReturnType
        IN IF convertTypeLeaf(RetTy) = "!void"
           THEN /\ emitted.ret.kind = "undef"
                /\ emitted.stores = <<>>
                /\ emitted.loads = <<>>
           ELSE IF getEvaluationKind(RetTy) = "TEK_Aggregate"
           THEN /\ emitted.ret.kind = "aggregate"
                /\ emitted.ret.addr = ReturnSlotOr("agg.tmp")
                /\ emitted.stores =
                       <<[value |-> "call.result", addr |-> emitted.ret.addr,
                          after |-> "call.result", region |-> TheCall.region]>>
                /\ emitted.loads = <<>>
           ELSE IF TheCall.region = "current"
           THEN /\ emitted.ret.kind = "scalar"
                /\ emitted.ret.value = "call.result"
                /\ emitted.stores = <<>>
                /\ emitted.loads = <<>>
           ELSE /\ emitted.ret.kind = "scalar"
                /\ emitted.ret.value = "load"
                /\ emitted.stores =
                       <<[value |-> "call.result",
                          addr |-> ReturnSlotOr("tmp.try.call.res"),
                          after |-> "call.result", region |-> TheCall.region]>>
                /\ emitted.loads =
                       <<[addr |-> ReturnSlotOr("tmp.try.call.res"),
                          region |-> "current"]>>

(* A scalar result of a call inside a synthetic try, handed back through a *)
(* fresh temporary.                                                        *)
C7_Witness ==
    /\ Completed
    /\ getEvaluationKind(request.in.CallInfo.ReturnType) = "TEK_Scalar"
    /\ convertTypeLeaf(request.in.CallInfo.ReturnType) # "!void"
    /\ TheCall.region = "try"
    /\ ~request.in.ReturnValue.Valid
    /\ emitted.ret.value = "load"

SlotType(i) == convertTypeLeaf(request.in.CallInfo.ArgTypes[i])

NoFaultBefore(i) == emitted.argFaultAt \notin 1..(i - 1)

\* C8: for a scalar parameter slot, an evaluated scalar wider than the
\* slot's machine type makes emitCall end in a fault, and no call is
\* emitted.
C8_NoTruncation ==
    Emitting =>
        \A i \in 1..Len(request.in.CallArgs) :
            (/\ SlotType(i) \notin RecordTypes
             /\ ~request.in.CallArgs[i].isAggregate
             /\ BitWidth(request.in.CallArgs[i].Ty) > BitWidth(SlotType(i))
             /\ NoFaultBefore(i))
            => /\ emitted.status = "fault"
               /\ emitted.argFaultAt = i
               /\ emitted.calls = <<>>

\* C9: for a parameter slot whose machine type is an integer wider than the
\* evaluated integer argument, the argument does not fault: it is widened to
\* the slot's type and the call is emitted.
C9_WideningMaterialized ==
    Emitting =>
        \A i \in 1..Len(request.in.CallArgs) :
            (/\ SlotType(i) \in IntTypes
             /\ ~request.in.CallArgs[i].isAggregate
             /\ request.in.CallArgs[i].Ty \in IntTypes
             /\ BitWidth(SlotType(i)) > BitWidth(request.in.CallArgs[i].Ty))
            => /\ emitted.argFaultAt # i
               /\ CallEmitted => TheCall.args[i].type = SlotType(i)

\* C10: an aggregate argument whose shape equals the parameter's is
\* materialized as one load from the source address with no
\* reinterpretation; one whose shape differs and whose size is the same is
\* materialized by reinterpreting the address as a pointer to the
\* parameter's shape and loading it.
C10_AggregateCoercion ==
    Emitting =>
        \A i \in 1..Len(request.in.CallArgs) :
            (SlotType(i) \in RecordTypes /\ request.in.CallArgs[i].isAggregate) =>
                /\ (request.in.CallArgs[i].Ty = SlotType(i) /\ CallEmitted) =>
                      /\ TheCall.args[i].how = "load"
                      /\ TheCall.args[i].from = SlotType(i)
                      /\ ~TheCall.args[i].reinterpreted
                /\ (/\ request.in.CallArgs[i].Ty # SlotType(i)
                    /\ BitWidth(request.in.CallArgs[i].Ty) = BitWidth(SlotType(i))) =>
                      /\ emitted.argFaultAt # i
                      /\ CallEmitted =>
                            /\ TheCall.args[i].how = "load"
                            /\ TheCall.args[i].reinterpreted
                            /\ TheCall.args[i].type = SlotType(i)

(***************************************************************************)
(* The attributes of a call site of a no-return or virtual function.       *)
(***************************************************************************)
\* C11: at a call site of a virtual member function the attribute set has
\* no no-return attribute from the declaration, and at a call site of a
\* function that is not virtual and is declared no-return the attribute set
\* has the no-return attribute.
C11_NoReturnAtCallSites ==
    (CallEmitted /\ isFunctionDecl(CalleeDecl)) =>
        /\ (CalleeDecl.DeclKind = "CXXMethod" /\ CalleeDecl.IsVirtual)
               => "noreturn" \notin emitted.attrs
        /\ (~(CalleeDecl.DeclKind = "CXXMethod" /\ CalleeDecl.IsVirtual)
            /\ isNoReturn(CalleeDecl))
               => "noreturn" \in emitted.attrs

\* C12: the side-effect class of an emitted call is Const when the callee
\* declaration carries const, with or without pure; Pure when it carries
\* pure and not const; and All in every other case, a declaration carrying
\* only noalias and a call with no declaration included.
C12_SideEffectClass ==
    CallEmitted =>
        \A i \in 1..Len(emitted.calls) :
            emitted.calls[i].sideEffect =
                (CASE ~CalleeDecl.IsNull /\ "Const" \in CalleeDecl.Attrs -> "const"
                   [] ~CalleeDecl.IsNull /\ "Const" \notin CalleeDecl.Attrs
                          /\ "Pure" \in CalleeDecl.Attrs -> "pure"
                   [] OTHER -> "all")

(* A call of a function declared both const and pure, emitted as Const. *)
C12_Witness ==
    /\ CallEmitted
    /\ ~CalleeDecl.IsNull
    /\ {"Const", "Pure"} \subseteq CalleeDecl.Attrs
    /\ TheCall.sideEffect = "const"

(* Calls of a function declared pure only, declared noalias only, and      *)
(* with no declaration.                                                    *)
C12_WitnessPure ==
    CallEmitted /\ ~CalleeDecl.IsNull /\ CalleeDecl.Attrs = {"Pure"} /\ TheCall.sideEffect = "pure"

C12_WitnessNoAlias ==
    CallEmitted /\ ~CalleeDecl.IsNull /\ CalleeDecl.Attrs = {"NoAlias"} /\ TheCall.sideEffect = "all"

C12_WitnessNoDecl ==
    CallEmitted /\ CalleeDecl.IsNull /\ TheCall.sideEffect = "all"

(***************************************************************************)
(* Descriptors of the same signature.                                      *)
(***************************************************************************)
InTable == request.op \in {"arrangeFreeFunctionType", "arrangeFunctionDeclaration"} /\ "table" \in DOMAIN request

\* C13: arranging a function type or a declaration yields, whatever was
\* arranged before it, a descriptor of the table that equals the one the
\* arranger creates for it on an empty table in calling convention, instance
\* flag, argument-type sequence and required-argument count; so two
\* arrangements of structurally identical inputs yield equal descriptors.
C13_SignatureDeterminism ==
    InTable =>
        /\ arranged.fault = arrangeRequested(request).fault
        /\ arranged.FIs \subseteq FunctionInfos
        /\ \A FI \in arranged.FIs :
              \A created \in arrangeRequested(request).FIs :
                  /\ FI.CallingConvention = created.CallingConvention
                  /\ FI.InstanceMethod = created.InstanceMethod
                  /\ FI.ArgTypes = created.ArgTypes
                  /\ FI.Required = created.Required

(* A declaration arranged again, after two other signatures were arranged, *)
(* its descriptor being the one the table already had.                     *)
C13_Witness ==
    /\ InTable
    /\ request.op = "arrangeFunctionDeclaration"
    /\ arranged.FIs # {}
    /\ arranged.FIs \subseteq request.table
    /\ Cardinality(request.table) = MaxFunctionInfos

(***************************************************************************)
(* The descriptor of an instance member function.                          *)
(***************************************************************************)
ArrangedInstanceMethod ==
    /\ request.op \in {"arrangeCXXMethodDeclaration", "arrangeCXXMethodType",
                       "arrangeFunctionDeclaration"}
    /\ request.decl.Kind = "Method"
    /\ request.decl.isInstance
    /\ arranged.fault = NoFault

(* The object-size parameters among the first n of a prototype. *)
ObjectSizeParamsBefore(proto, n) ==
    IF proto.HasExtParameterInfos
    THEN Cardinality({j \in 1..n : proto.ExtParameterInfos[j].PassObjectSize})
    ELSE 0

\* C14: the descriptor arranged for an instance member function has as its
\* first argument type the pointer to the class, with the address space of
\* the method's qualifiers and without their const, and after it the
\* prototype's parameter types in declared order (each object-size parameter
\* followed by its size-typed entry, and nothing else).
C14_ThisThenParameters ==
    ArrangedInstanceMethod =>
        \A FI \in arranged.FIs :
            LET MD == request.decl
                n == Len(MD.Type.ParamTypes)
            IN /\ FI.ArgTypes # <<>>
               /\ FI.ArgTypes[1] =
                      (IF MD.MethodQualifiers.AddressSpace = "as1"
                       THEN "ptr<as1 C>" ELSE "ptr<C>")
               /\ Len(FI.ArgTypes) = 1 + n + ObjectSizeParamsBefore(MD.Type, n)
               /\ \A i \in 1..n :
                      FI.ArgTypes[1 + i + ObjectSizeParamsBefore(MD.Type, i - 1)]
                          = MD.Type.ParamTypes[i]

(* A const method with two parameters of different types. *)
C14_Witness ==
    /\ ArrangedInstanceMethod
    /\ request.decl.MethodQualifiers.Const
    /\ request.decl.Type.ParamTypes = <<"int", "ptr<char>">>
    /\ arranged.FIs # {}

(* A method in address space as1, and one with an object-size parameter. *)
C14_WitnessAddressSpace ==
    /\ ArrangedInstanceMethod
    /\ request.decl.MethodQualifiers.AddressSpace = "as1"
    /\ \E FI \in arranged.FIs : FI.ArgTypes[1] = "ptr<as1 C>"

C14_WitnessObjectSize ==
    /\ ArrangedInstanceMethod
    /\ ObjectSizeParamsBefore(request.decl.Type, Len(request.decl.Type.ParamTypes)) > 0
    /\ arranged.FIs # {}

(***************************************************************************)
(* The required-argument count of a prototype.                             *)
(***************************************************************************)
(* The prototype a request arranges with its parameters passed, and the    *)
(* implicit arguments inserted before and after them: the receiver and     *)
(* the structor arguments of the C++ ABI.                                  *)
ArrangedFromPrototype ==
    /\ arranged.fault = NoFault
    /\ arranged.FIs # {}
    /\ \/ request.op \in {"arrangeFreeFunctionType", "arrangeFreeFunctionCall"}
          /\ request.type.Kind = "Proto"
       \/ request.op \in {"arrangeFunctionDeclaration", "arrangeCXXMethodDeclaration",
                          "arrangeCXXMethodType"}
          /\ request.decl.Type.Kind = "Proto"
       \/ request.op = "arrangeCXXStructorDeclaration"
          /\ (request.decl.Inherited = "None"
              \/ inheritingCtorHasParams(request.decl.Inherited, request.ctorType,
                                         request.abi.hasConstructorVariants))
       \/ request.op = "arrangeCXXConstructorCall" /\ request.PassProtoArgs

RequestedPrototype ==
    IF request.op \in {"arrangeFreeFunctionType", "arrangeFreeFunctionCall"}
    THEN request.type ELSE request.decl.Type

ImplicitArgs ==
    CASE request.op \in {"arrangeFreeFunctionType", "arrangeFreeFunctionCall"} -> 0
      [] request.op \in {"arrangeCXXStructorDeclaration", "arrangeCXXConstructorCall"} ->
             1 + request.abi.AddedArgs.Prefix + request.abi.AddedArgs.Suffix
      [] OTHER -> IF request.decl.isInstance THEN 1 ELSE 0

\* C15: a descriptor arranged from a variadic prototype requires as many
\* arguments as the prototype has formal parameters (each object-size
\* parameter with its size argument) plus the implicit arguments inserted,
\* so when the call passes nothing beyond them every argument is required;
\* a descriptor arranged from a prototype that is not variadic has all
\* arguments required.
C15_RequiredOfPrototype ==
    ArrangedFromPrototype =>
        \A FI \in arranged.FIs :
            LET proto == RequestedPrototype
                n == Len(proto.ParamTypes)
                fixed == n + ObjectSizeParamsBefore(proto, n) + ImplicitArgs
            IN IF proto.Variadic
               THEN /\ FI.Required = fixed
                    /\ isVariadic(FI)
                    /\ getNumRequiredArgs(FI) = fixed
                    /\ (FI.NumArgs = fixed) => (getNumRequiredArgs(FI) = FI.NumArgs)
                    /\ Len(requiredArguments(FI)) = fixed
               ELSE /\ FI.Required = RequiredArgs_All
                    /\ ~isVariadic(FI)
                    /\ getNumRequiredArgs(FI) = FI.NumArgs

(* A variadic member function with a parameter, its receiver counted. *)
C15_Witness ==
    /\ ArrangedFromPrototype
    /\ request.op = "arrangeCXXMethodType"
    /\ RequestedPrototype.Variadic
    /\ \E FI \in arranged.FIs : FI.Required = 2

(* A variadic call with nothing passed beyond the parameters, one with an  *)
(* argument beyond them, and a variadic constructor with ABI arguments.    *)
C15_WitnessNoOptional ==
    /\ ArrangedFromPrototype
    /\ request.op = "arrangeFreeFunctionCall"
    /\ RequestedPrototype.Variadic
    /\ \E FI \in arranged.FIs : FI.Required = FI.NumArgs /\ FI.NumArgs = 2

C15_WitnessOptional ==
    /\ ArrangedFromPrototype
    /\ request.op = "arrangeFreeFunctionCall"
    /\ RequestedPrototype.Variadic
    /\ \E FI \in arranged.FIs : FI.Required < FI.NumArgs

C15_WitnessStructor ==
    /\ ArrangedFromPrototype
    /\ request.op = "arrangeCXXStructorDeclaration"
    /\ RequestedPrototype.Variadic
    /\ \E FI \in arranged.FIs : FI.Required = 3

(***************************************************************************)
(* Descriptors of unprototyped function types.                             *)
(***************************************************************************)
ArrangedFromNoProto ==
    /\ arranged.fault = NoFault
    /\ arranged.FIs # {}
    /\ \/ request.op \in {"arrangeFreeFunctionType", "arrangeFreeFunctionCall"}
          /\ request.type.Kind = "NoProto"
       \/ request.op = "arrangeFunctionDeclaration"
          /\ request.decl.Type.Kind = "NoProto"

\* C16: a descriptor arranged from an unprototyped function type is
\* variadic with zero required arguments when arrangeFreeFunctionType
\* arranged it from the type; it is not variadic, all of its (no) arguments
\* being required, when arrangeFunctionDeclaration arranged it from a
\* declaration; and it is variadic with every argument of the call required
\* when arrangeFreeFunctionCall arranged it for a call.
C16_UnprototypedRequired ==
    ArrangedFromNoProto =>
        \A FI \in arranged.FIs :
            CASE request.op = "arrangeFreeFunctionType" ->
                     /\ isVariadic(FI)
                     /\ FI.Required = 0
                     /\ FI.ArgTypes = <<>>
              [] request.op = "arrangeFunctionDeclaration" ->
                     /\ ~isVariadic(FI)
                     /\ FI.Required = RequiredArgs_All
                     /\ FI.ArgTypes = <<>>
              [] request.op = "arrangeFreeFunctionCall" ->
                     /\ isVariadic(FI)
                     /\ FI.Required = Len(request.args)
                     /\ FI.ArgTypes = ArgTys(request.args)

(* A call of an unprototyped function with an argument. *)
C16_Witness ==
    /\ ArrangedFromNoProto
    /\ request.op = "arrangeFreeFunctionCall"
    /\ \E FI \in arranged.FIs : FI.Required = 1 /\ FI.NumArgs = 1

(* The unprototyped type itself, and a declaration of it. *)
C16_WitnessType ==
    /\ ArrangedFromNoProto
    /\ request.op = "arrangeFreeFunctionType"
    /\ \E FI \in arranged.FIs : FI.Required = 0

C16_WitnessDeclaration ==
    /\ ArrangedFromNoProto
    /\ request.op = "arrangeFunctionDeclaration"
    /\ \E FI \in arranged.FIs : FI.Required = RequiredArgs_All

(* C16 as the specification words it: variadic with zero required          *)
(* arguments from each of the three entry points.                          *)
C16_AsStated ==
    ArrangedFromNoProto =>
        \A FI \in arranged.FIs : isVariadic(FI) /\ getNumRequiredArgs(FI) = 0

(***************************************************************************)
(* Object-size parameters in the descriptor and in the argument list.      *)
(***************************************************************************)
ArgsEmitted ==
    /\ request.op = "emitCallArgs"
    /\ callArgs.fault = NoFault
    /\ request.AC.hasFunctionDecl
    /\ request.decl.Type.Kind = "Proto"
    /\ request.Prototype = request.decl.Type

(* Where the i-th parameter is in a list that has a size entry after each  *)
(* object-size parameter.                                                  *)
SlotOfParam(proto, i) == i + ObjectSizeParamsBefore(proto, i - 1)

IsObjectSizeParam(proto, i) ==
    proto.HasExtParameterInfos /\ proto.ExtParameterInfos[i].PassObjectSize

\* C17: for each object-size parameter of a called function, the argument
\* types of the declaration's descriptor have the size type right after the
\* parameter's type and its extended infos have an entry at both positions;
\* the argument list emitCallArgs builds has the object-size value of the
\* argument right after the argument; and the argument list, the argument
\* types of the call's descriptor and those of the declaration's descriptor
\* agree in length (up to the variadic arguments) and type by type.
C17_ObjectSizeSlots ==
    ArgsEmitted =>
        LET proto == request.decl.Type
            n == Len(proto.ParamTypes)
            slots == n + ObjectSizeParamsBefore(proto, n)
        IN /\ \A declFI \in arrangeFunctionDeclaration(request.decl, DefaultCGM).FIs :
                /\ Len(declFI.ArgTypes) = slots
                /\ Len(callArgs.args) >= slots
                /\ ~proto.Variadic => Len(callArgs.args) = slots
                /\ \A j \in 1..slots : callArgs.args[j].Ty = declFI.ArgTypes[j]
                /\ proto.HasExtParameterInfos =>
                       Len(declFI.ExtParameterInfos) = Len(declFI.ArgTypes)
                /\ \A i \in 1..n :
                       IsObjectSizeParam(proto, i) =>
                           /\ declFI.ArgTypes[SlotOfParam(proto, i)] = proto.ParamTypes[i]
                           /\ declFI.ArgTypes[SlotOfParam(proto, i) + 1] = SizeType
                           /\ declFI.ExtParameterInfos[SlotOfParam(proto, i)].PassObjectSize
                           /\ ~declFI.ExtParameterInfos[SlotOfParam(proto, i) + 1].PassObjectSize
           /\ \A i \in 1..n :
                  /\ callArgs.args[SlotOfParam(proto, i)].Holds = "value"
                  /\ callArgs.args[SlotOfParam(proto, i)].Index = i
                  /\ IsObjectSizeParam(proto, i) =>
                         /\ callArgs.args[SlotOfParam(proto, i) + 1].Holds = "objectsize"
                         /\ callArgs.args[SlotOfParam(proto, i) + 1].Index = i
                         /\ callArgs.args[SlotOfParam(proto, i) + 1].Ty = SizeType
           /\ \A FI \in arranged.FIs :
                  /\ Len(FI.ArgTypes) = Len(callArgs.args)
                  /\ \A j \in 1..Len(callArgs.args) : FI.ArgTypes[j] = callArgs.args[j].Ty
                  /\ proto.HasExtParameterInfos =>
                         /\ Len(FI.ExtParameterInfos) = Len(FI.ArgTypes)
                         /\ \A i \in 1..n :
                                FI.ExtParameterInfos[SlotOfParam(proto, i)].PassObjectSize
                                    = IsObjectSizeParam(proto, i)

(* A call, with its descriptor arranged, of a function whose first of two  *)
(* parameters carries its object size.                                     *)
C17_Witness ==
    /\ ArgsEmitted
    /\ arranged.FIs # {}
    /\ Len(request.decl.Type.ParamTypes) = 2
    /\ IsObjectSizeParam(request.decl.Type, 1)
    /\ Len(callArgs.args) = 3
    /\ callArgs.args[2].Holds = "objectsize"

(***************************************************************************)
(* The parameters of an inheriting constructor.                            *)
(***************************************************************************)
ArrangedInheritingCtor ==
    /\ request.op = "arrangeCXXStructorDeclaration"
    /\ request.decl.Kind = "Constructor"
    /\ request.decl.Inherited # "None"
    /\ arranged.fault = NoFault
    /\ arranged.FIs # {}

(* The descriptor has the receiver and the ABI's arguments only. *)
ParamsDropped(FI) ==
    /\ FI.NumArgs = 1 + request.abi.AddedArgs.Prefix + request.abi.AddedArgs.Suffix
    /\ FI.Required = RequiredArgs_All

(* The descriptor has the declared parameters between the ABI's prefix and *)
(* suffix arguments.                                                       *)
ParamsPassed(FI) ==
    LET params == request.decl.Type.ParamTypes
        before == 1 + request.abi.AddedArgs.Prefix
    IN /\ FI.NumArgs = before + Len(params) + request.abi.AddedArgs.Suffix
       /\ \A i \in 1..Len(params) : FI.ArgTypes[before + i] = params[i]

\* C18: arranging an inheriting constructor drops the formal parameters,
\* leaving the receiver and the ABI's structor arguments, when the
\* constructor variant arranged is not the complete-object one, the shadow
\* declaration constructs a virtual base and the ABI has constructor
\* variants; in every other case the formal parameters are passed.
C18_InheritingCtorParams ==
    ArrangedInheritingCtor =>
        \A FI \in arranged.FIs :
            /\ FI.ArgTypes[1] = "ptr<C>"
            /\ IF /\ request.ctorType # "Ctor_Complete"
                  /\ request.decl.Inherited = "ShadowConstructsVirtualBase"
                  /\ request.abi.hasConstructorVariants
               THEN ParamsDropped(FI)
               ELSE ParamsPassed(FI)

(* A base-object inheriting constructor of two parameters whose shadow     *)
(* declaration constructs a virtual base: the parameters are dropped.      *)
C18_Witness ==
    /\ ArrangedInheritingCtor
    /\ request.ctorType = "Ctor_Base"
    /\ request.decl.Inherited = "ShadowConstructsVirtualBase"
    /\ request.abi.hasConstructorVariants
    /\ Len(request.decl.Type.ParamTypes) = 2
    /\ \E FI \in arranged.FIs : FI.NumArgs = 1

(* No virtual base and no constructor variants: the parameters are passed. *)
C18_WitnessPassed ==
    /\ ArrangedInheritingCtor
    /\ request.decl.Inherited = "ShadowNoVirtualBase"
    /\ ~request.abi.hasConstructorVariants
    /\ Len(request.decl.Type.ParamTypes) = 2
    /\ \E FI \in arranged.FIs : FI.NumArgs = 3

(* C18 as the specification words it: the parameters are dropped when the  *)
(* shadow declaration constructs no virtual base and the ABI has no        *)
(* constructor variants, and passed otherwise.                             *)
C18_AsStated ==
    (ArrangedInheritingCtor /\ request.decl.Type.ParamTypes # <<>>) =>
        \A FI \in arranged.FIs :
            IF /\ request.decl.Inherited = "ShadowNoVirtualBase"
               /\ ~request.abi.hasConstructorVariants
            THEN ParamsDropped(FI)
            ELSE ParamsPassed(FI)

(***************************************************************************)
(* The calling convention of a kernel declaration.                         *)
(***************************************************************************)
ArrangedKernelDeclaration ==
    /\ request.op \in {"arrangeFunctionDeclaration", "arrangeCXXMethodDeclaration"}
    /\ request.decl.CUDAGlobalAttr
    /\ arranged.fault = NoFault
    /\ arranged.FIs # {}

\* C19: the descriptor arranged for the declaration of a kernel function,
\* free or member, has the calling convention the target rewrote on the
\* function type, not the one the source declares.
C19_KernelConventionRewritten ==
    ArrangedKernelDeclaration =>
        \A FI \in arranged.FIs :
            /\ FI.ASTCallingConvention =
                   setCUDAKernelCallingConvention(request.decl.Type, request.CGM,
                                                  request.decl).CC
            /\ FI.CallingConvention =
                   ClangCallConvToCIRCallConv(
                       setCUDAKernelCallingConvention(request.decl.Type, request.CGM,
                                                      request.decl).CC)
            /\ request.CGM.KernelCallingConv # "unchanged" =>
                   FI.ASTCallingConvention # request.decl.Type.CC

(* A member kernel declaration, arranged from the rewritten convention. *)
KernelMethodRewritten ==
    /\ ArrangedKernelDeclaration
    /\ request.decl.Kind = "Method"
    /\ request.decl.isInstance
    /\ request.CGM.KernelCallingConv = "CC_OpenCLKernel"
    /\ \E FI \in arranged.FIs : FI.ASTCallingConvention = "CC_OpenCLKernel"

(***************************************************************************)
(* The conditions a call is given up on.                                   *)
(***************************************************************************)
(* The call expression whose arguments were emitted. *)
CallExpr == IF request.op = "emitCall" THEN request.of ELSE request

InCallExpr ==
    \/ request.op = "emitCallArgs"
    \/ request.op = "emitCall" /\ "of" \in DOMAIN request

(* An argument that is not a gl-value and whose record type is destroyed   *)
(* in the callee.                                                          *)
ArgDestroyedInCallee ==
    \E i \in 1..Len(CallExpr.ArgRange) :
        /\ CallExpr.ArgRange[i].Kind # "GLValue"
        /\ isRecordType(CallExpr.ArgRange[i].Ty)
        /\ CallExpr.ArgRange[i].ParamDestroyedInCallee

ScalarResultMismatch ==
    /\ Emitting
    /\ convertTypeLeaf(request.in.CallInfo.ReturnType) # "!void"
    /\ getEvaluationKind(request.in.CallInfo.ReturnType) = "TEK_Scalar"
    /\ request.in.Callee.Ptr.ResultType # convertTypeLeaf(request.in.CallInfo.ReturnType)

(* The call construct has more than one result, and the call returns a     *)
(* value.                                                                  *)
MultipleResults ==
    /\ Emitting
    /\ convertTypeLeaf(request.in.CallInfo.ReturnType) # "!void"
    /\ Len(getOpResults([resultType |-> request.in.Callee.Ptr.ResultType])) > 1

\* C20: the call of a call expression does not complete, and returns no
\* value, when the descriptor has an argument record, when the call is
\* must-tail, when the call construct has more than one result, when the
\* type of the call's scalar result differs from the converted return type,
\* or when an argument's record type is destroyed in the callee; each ends
\* in a fault, the last one before any descriptor is arranged or call
\* emitted.
C20_FatalConditions ==
    InCallExpr =>
        /\ ArgDestroyedInCallee =>
               /\ callArgs.fault # NoFault
               /\ request.op = "emitCallArgs"
               /\ arranged = NoneArranged
               /\ emitted = NoneEmitted
        /\ (Emitting /\ (\/ request.in.CallInfo.ArgRecord
                         \/ request.in.IsMustTail
                         \/ MultipleResults
                         \/ ScalarResultMismatch)) =>
               /\ emitted.status = "fault"
               /\ emitted.fault # NoFault
               /\ emitted.ret = NoRValue
        /\ (Emitting /\ request.in.CallInfo.ArgRecord) => emitted.calls = <<>>

(* A call construct with no result for a return type that is not void: the *)
(* read of its first result stops at the index assertion of the range.     *)
NoResultStops ==
    /\ InCallExpr
    /\ Emitting
    /\ ~request.in.IsMustTail
    /\ ~request.in.CallInfo.ArgRecord
    /\ convertTypeLeaf(request.in.CallInfo.ReturnType) # "!void"
    /\ request.in.Callee.Ptr.ResultType = "!void"
    /\ emitted.fault = InvalidIndex
    /\ emitted.calls # <<>>
    /\ emitted.ret = NoRValue

(* A must-tail call: the call construct is created and the call faults. *)
C20_Witness ==
    /\ InCallExpr
    /\ Emitting
    /\ request.in.IsMustTail
    /\ ~request.in.CallInfo.ArgRecord
    /\ emitted.status = "fault"
    /\ emitted.calls # <<>>

C20_WitnessArgRecord ==
    InCallExpr /\ Emitting /\ request.in.CallInfo.ArgRecord /\ emitted.status = "fault"

(* A call construct with two results: the call is created and the          *)
(* extraction of the return value faults.                                  *)
C20_WitnessMultipleResults ==
    /\ InCallExpr
    /\ MultipleResults
    /\ ~request.in.IsMustTail
    /\ ~request.in.CallInfo.ArgRecord
    /\ emitted.calls # <<>>
    /\ emitted.fault = "assert: multiple returns NYI"

C20_WitnessResultType ==
    /\ InCallExpr
    /\ ScalarResultMismatch
    /\ ~request.in.IsMustTail
    /\ emitted.fault = "Bitcast support NYI"

C20_WitnessDestroyedInCallee ==
    /\ InCallExpr
    /\ ArgDestroyedInCallee
    /\ callArgs.fault = "Microsoft C++ ABI is NYI"

(* A call that meets none of the conditions and completes. *)
C20_WitnessCompleted ==
    InCallExpr /\ Completed /\ Len(request.in.CallArgs) = 3

(***************************************************************************)
(* The calling convention of indirect and direct calls.                    *)
(***************************************************************************)
Indirect == prepareConcreteCallee(request.in.Callee).Ptr.Op \notin {"FuncOp", "GetGlobalOp"}

RequestedConv == request.in.CallInfo.EffectiveCallingConvention

(* emitCall got as far as creating the call construct: nothing before      *)
(* emitCallLikeOp gave up.                                                 *)
ReachedCallStep ==
    /\ request.in.Callee.Kind \in {"Ordinary", "Virtual"}
    /\ ~request.in.CallInfo.ArgRecord
    /\ emitted.argFaultAt = 0
    /\ ~request.in.env.langOpts.SYCLIsDevice
    /\ ~request.in.env.isSEHTryScope
    /\ "StrictFP" \notin request.in.env.CurFuncDeclAttrs

\* C21: an indirect call, one through a function-pointer value, whose
\* calling convention is not C ends in the unimplemented-feature fault, and
\* no call construct is emitted for it; an indirect call that is emitted
\* carries the C convention.  A direct call at a position with no unwind
\* destination is emitted as a plain call with the convention of its
\* descriptor, whatever it is.
C21_IndirectConvention ==
    Emitting =>
        /\ (Indirect /\ RequestedConv # "C") =>
              /\ emitted.status = "fault"
              /\ emitted.calls = <<>>
              /\ ReachedCallStep => emitted.fault = "NYI"
        /\ (CallEmitted /\ TheCall.kind \in {"call_indirect", "try_call_indirect"}) =>
              TheCall.callingConv = "C"
        /\ (~Indirect /\ ~request.in.env.isInvokeDest /\ ReachedCallStep) =>
              /\ CallEmitted
              /\ TheCall.kind = "call"
              /\ TheCall.callingConv = RequestedConv

(* An indirect call of another convention refused at the call step. *)
C21_Witness ==
    /\ Emitting
    /\ Indirect
    /\ RequestedConv # "C"
    /\ ReachedCallStep
    /\ ~request.in.env.isInvokeDest
    /\ emitted.fault = "NYI"
    /\ emitted.calls = <<>>

(* A direct plain call emitted with a convention that is not C. *)
C21_WitnessDirect ==
    /\ CallEmitted
    /\ ~Indirect
    /\ TheCall.kind = "call"
    /\ TheCall.callingConv = "SpirKernel"

(* An emitted indirect call. *)
C21_WitnessIndirectEmitted ==
    /\ CallEmitted
    /\ TheCall.kind = "call_indirect"
    /\ TheCall.callingConv = "C"

(***************************************************************************)
(* A free function with scalar parameters, declared and called.            *)
(***************************************************************************)
(* A free function with a prototype that is not variadic and has no        *)
(* extended parameter infos; its parameters are scalars.                   *)
PlainScalarFunction(FD) ==
    /\ FD.Kind = "Function"
    /\ FD.Type.Kind = "Proto"
    /\ ~FD.Type.Variadic
    /\ ~FD.Type.HasExtParameterInfos
    /\ \A i \in 1..Len(FD.Type.ParamTypes) :
           getEvaluationKind(FD.Type.ParamTypes[i]) = "TEK_Scalar"

DeclarationArranged ==
    /\ request.op = "arrangeFunctionDeclaration"
    /\ PlainScalarFunction(request.decl)

(* The call of such a function was emitted from the argument list          *)
(* emitCallArgs built for all of its parameters.                           *)
PlainCallEmitted ==
    /\ request.op = "emitCall"
    /\ "of" \in DOMAIN request
    /\ PlainScalarFunction(request.of.decl)
    /\ request.of.ParamsToSkip = 0

\* C22: for a free function that is not variadic and has scalar parameters,
\* arranging the declaration yields one descriptor whose required count is
\* the number of parameters, whose argument types are the parameter types in
\* order, whose return type is the declared one and which has no extended
\* parameter info; and emitting a call of it, unless the caller asks for a
\* must-tail call or an argument record or the function op has another
\* result type, completes with exactly one direct call whose i-th operand is
\* the i-th evaluated argument, its machine type the parameter's and
\* unchanged, and whose result type is the machine type of the return type.
C22_ScalarFunctionCall ==
    /\ DeclarationArranged =>
          /\ arranged.fault = NoFault
          /\ Cardinality(arranged.FIs) = 1
          /\ \A FI \in arranged.FIs :
                /\ getNumRequiredArgs(FI) = Len(request.decl.Type.ParamTypes)
                /\ FI.ArgTypes = request.decl.Type.ParamTypes
                /\ FI.ReturnType = request.decl.Type.ReturnType
                /\ ~FI.HasExtParameterInfos
                /\ FI.ExtParameterInfos = <<>>
    /\ PlainCallEmitted =>
          /\ (/\ ~request.in.IsMustTail
              /\ ~request.in.CallInfo.ArgRecord
              /\ request.in.Callee.Ptr.ResultType
                     = convertTypeLeaf(request.of.decl.Type.ReturnType))
                => Completed
          /\ Completed =>
                /\ Len(emitted.calls) = 1
                /\ TheCall.kind = "call"
                /\ Len(TheCall.args) = Len(request.of.decl.Type.ParamTypes)
                /\ \A i \in 1..Len(TheCall.args) :
                      /\ TheCall.args[i].arg = i - 1
                      /\ TheCall.args[i].how = "value"
                      /\ TheCall.args[i].from
                             = convertTypeLeaf(request.of.ArgRange[i].Ty)
                      /\ TheCall.args[i].type
                             = convertTypeLeaf(request.of.decl.Type.ParamTypes[i])
                /\ TheCall.resultType
                       = convertTypeLeaf(request.of.decl.Type.ReturnType)

(* The completed call of int f(int). *)
C22_Witness ==
    /\ PlainCallEmitted
    /\ Completed
    /\ request.of.decl.Type.ParamTypes = <<"int">>
    /\ request.of.decl.Type.ReturnType = "int"
    /\ TheCall.args[1].type = "!s32i"
    /\ TheCall.resultType = "!s32i"

(* The arranged declaration of int f(int). *)
C22_WitnessDeclaration ==
    /\ DeclarationArranged
    /\ request.decl.Type.ParamTypes = <<"int">>
    /\ request.decl.Type.ReturnType = "int"
    /\ \E FI \in arranged.FIs : FI.ArgTypes = <<"int">> /\ getNumRequiredArgs(FI) = 1

(***************************************************************************)
(* A small record passed and returned by value.                            *)
(***************************************************************************)
RecordCallCompleted == Emitting /\ emitted.status = "completed"

CallLowered == request.op = "callConvLowering"

LoweredCall == emitted.calls[1]

(* Every S1 operand and an S1 result of the call have the 64-bit integer   *)
(* type, the operand loaded through, and the result stored through, the    *)
(* cast of the temporary's address.                                        *)
Coerced ==
    /\ Len(emitted.calls) = 1
    /\ \A i \in 1..Len(request.in.CallArgs) :
          request.in.CallInfo.ArgTypes[i] = "S1" =>
              /\ LoweredCall.args[i].type = "!u64i"
              /\ LoweredCall.args[i].how = "load"
              /\ LoweredCall.args[i].from = "!ty_S1"
              /\ LoweredCall.args[i].reinterpreted
    /\ request.in.CallInfo.ReturnType = "S1" =>
          /\ LoweredCall.resultType = "!u64i"
          /\ Len(emitted.stores) = 1
          /\ emitted.stores[1].value = "call.result"
          /\ emitted.stores[1].after = "call.result"
          /\ emitted.stores[1].through = "!cir.ptr<!u64i>"
          /\ emitted.stores[1].addr
                 = (IF request.in.ReturnValue.Valid THEN request.in.ReturnValue.Addr
                    ELSE "agg.tmp")
          /\ emitted.ret.addr = emitted.stores[1].addr

RecordTypeKept ==
    RecordCallCompleted =>
        /\ Len(emitted.calls) = 1
        /\ \A i \in 1..Len(request.in.CallArgs) :
              request.in.CallInfo.ArgTypes[i] = "S1" =>
                  /\ emitted.calls[1].args[i].type = "!ty_S1"
                  /\ emitted.calls[1].args[i].how = "load"
                  /\ ~emitted.calls[1].args[i].reinterpreted
        /\ request.in.CallInfo.ReturnType = "S1" =>
              /\ emitted.calls[1].resultType = "!ty_S1"
              /\ Len(emitted.stores) = 1
              /\ emitted.stores[1].value = "call.result"
              /\ emitted.stores[1].after = "call.result"
              /\ emitted.stores[1].addr
                     = (IF request.in.ReturnValue.Valid THEN request.in.ReturnValue.Addr
                        ELSE "agg.tmp")
              /\ emitted.ret.addr = emitted.stores[1].addr

C23_WitnessNotLowered ==
    /\ CallLowered
    /\ ~request.CallConvLowering
    /\ request.in.CallInfo.ArgTypes = <<"S1">>
    /\ request.in.CallInfo.ReturnType = "S1"
    /\ LoweredCall.args[1].type = "!ty_S1"
    /\ LoweredCall.resultType = "!ty_S1"

(***************************************************************************)
(* The attributes of a definition with optimization disabled and enabled.  *)
(***************************************************************************)
Defined == request.op = "setFunctionAttributes" /\ emitted.fault = NoFault

NeverOptnoneFromDeclaration ==
    Defined =>
        /\ "optnone" \notin emitted.fromDeclaration
        /\ "inline=no" \notin emitted.fromDeclaration
        /\ emitted.fromDeclaration =
               constructAttributeList(FIOf(FnProto("int", <<"int", "int">>)),
                                      [FPT |-> request.decl.Type, Decl |-> request.decl],
                                      {}, request.langOpts, FALSE).funcAttrs

C24_WitnessO2 ==
    /\ Defined
    /\ request.decl.Attrs = {}
    /\ request.OptimizationLevel = 2
    /\ request.langOpts = DefaultLangOpts
    /\ emitted.attrs = {"nothrow"}

(***************************************************************************)
(* The in-progress set of GetFunctionType.                                 *)
(***************************************************************************)
InProgress == {stack[i].FI : i \in 1..Len(stack)}

\* C25: every GetFunctionType(FI) leaves the in-progress set on return as it
\* found it on entry.  While no assertion has failed the set holds exactly
\* the descriptors of the invocations that have been entered and have not
\* returned, each of them once; so a return takes out what its entry put
\* in, between two top-level lowerings the set is empty, and a top-level
\* lowering, of a descriptor lowered before or not, ends with a function
\* type and without a fault.
C25_InProgressRestored ==
    /\ lowered.fault = NoFault =>
          /\ FunctionsBeingProcessed = InProgress
          /\ \A i, j \in 1..Len(stack) : stack[i].FI = stack[j].FI => i = j
    /\ stack = <<>> => FunctionsBeingProcessed = {}
    /\ (request.op = "GetFunctionType" /\ stack = <<>>) =>
          /\ lowered.fault = NoFault
          /\ Cardinality(lowered.types) = 1

(* A top-level lowering that entered a nested one has returned, and the    *)
(* set is empty again.                                                     *)
C25_Witness ==
    /\ request.op = "GetFunctionType"
    /\ stack = <<>>
    /\ lowered.types # {}
    /\ \E i \in 1..Len(request.FI.ArgTypes) :
           request.FI.ArgTypes[i] \in TypesWithFunctionBehind
    /\ FunctionsBeingProcessed = {}

(* A nested invocation in progress: two descriptors in the set. *)
C25_WitnessNested ==
    /\ Len(stack) = 2
    /\ lowered.fault = NoFault
    /\ Cardinality(FunctionsBeingProcessed) = 2

(***************************************************************************)
(* C26: the unwind scope of a wrapped call.                                *)
(***************************************************************************)
EmittedLikeOp == request.op = "emitCallLikeOp"

TryOpsIn(builder) ==
    UNION {{<<b, i>> : i \in {j \in 1..Len(builder.blocks[b]) :
                                 builder.blocks[b][j].kind = "cir.try"}} :
              b \in DOMAIN builder.blocks}

\* C26: a call emitted as an invoke uses the closest enclosing try when the
\* scope has one, and then no try operation and no block is created; when the
\* scope has none, exactly one try operation is created, it is the one the
\* call uses, it is marked synthetic, and it has exactly one handler region,
\* of one block, whose only operation is a resume.
C26_SurroundingTry ==
    (EmittedLikeOp /\ request.isInvoke) =>
        IF request.CGF.closestTryParent # NoTry
        THEN /\ emitted.tryOp = request.CGF.closestTryParent
             /\ TryOpsIn(emitted.builder) = TryOpsIn(request.CGF.builder)
             /\ DOMAIN emitted.builder.blocks = DOMAIN request.CGF.builder.blocks
        ELSE /\ Cardinality(TryOpsIn(emitted.builder)) =
                    Cardinality(TryOpsIn(request.CGF.builder)) + 1
             /\ \A p \in TryOpsIn(emitted.builder) \ TryOpsIn(request.CGF.builder) :
                    emitted.builder.blocks[p[1]][p[2]] = emitted.tryOp
             /\ emitted.tryOp.synthetic
             /\ Len(emitted.tryOp.handlerRegions) = 1
             /\ Len(emitted.tryOp.handlerRegions[1]) = 1
             /\ emitted.builder.blocks[emitted.tryOp.handlerRegions[1][1]] = <<ResumeOp>>

C26_Witness ==
    /\ EmittedLikeOp
    /\ request.isInvoke
    /\ emitted.fault = NoFault
    /\ request.CGF.closestTryParent = NoTry
    /\ emitted.tryOp.synthetic
    /\ Len(request.CGF.builder.blocks["entry"]) = 2

C26_WitnessEnclosing ==
    /\ EmittedLikeOp
    /\ request.isInvoke
    /\ emitted.fault = NoFault
    /\ request.CGF.closestTryParent = ExplicitTryOp
    /\ emitted.tryOp = ExplicitTryOp

(***************************************************************************)
(* C30: where a wrapped call goes, and what the emission leaves behind.    *)
(***************************************************************************)
EmitsCallLikeOp == Idle /\ request'.op = "emitCallLikeOp"

LastTryBlock(tryOp) == tryOp.tryRegion[Len(tryOp.tryRegion)]

\* C30: an emission wrapped as an invoke into a synthesized try puts the call
\* first in the last block of the try region with one yield right behind it,
\* leaves the insertion point where it was saved before the call (behind the
\* new try operation), sets mayThrow and leaves the call-with-exception
\* context null; an emission that is not wrapped leaves mayThrow and the
\* call-with-exception context as they were.
C30_WrappedEmission ==
    [][EmitsCallLikeOp =>
        /\ (request'.isInvoke /\ emitted'.fault = NoFault /\ emitted'.tryOp.synthetic) =>
              /\ emitted'.builder.blocks[LastTryBlock(emitted'.tryOp)] =
                     <<emitted'.call, YieldOp>>
              /\ emitted'.call = TryCallOp(request'.indirect, "C")
              /\ emitted'.builder.ip = emitted'.savedIp
              /\ emitted'.savedIp = [request'.CGF.builder.ip EXCEPT !.index = @ + 1]
              /\ mayThrow'
              /\ emitted'.ctxAtInvokeDest = emitted'.call
              /\ callWithExceptionCtx' = "null"
        /\ ~request'.isInvoke =>
              /\ mayThrow' = mayThrow
              /\ callWithExceptionCtx' = callWithExceptionCtx
              /\ emitted'.ctxAtInvokeDest = "null"]_vars

C30_Witness ==
    /\ EmittedLikeOp
    /\ request.isInvoke
    /\ emitted.fault = NoFault
    /\ emitted.tryOp.synthetic
    /\ emitted.builder.blocks["try.synthetic.body"] = <<TryCallOp(TRUE, "C"), YieldOp>>
    /\ emitted.builder.ip = [block |-> "entry", index |-> 2]
    /\ mayThrow

C30_WitnessPlain ==
    /\ EmittedLikeOp
    /\ ~request.isInvoke
    /\ emitted.fault = NoFault
    /\ ~mayThrow

C30_WitnessPlainAfterWrapped ==
    /\ EmittedLikeOp
    /\ ~request.isInvoke
    /\ emitted.fault = NoFault
    /\ mayThrow

(***************************************************************************)
(* C27: the order in which emitCallArgs evaluates the arguments.           *)
(***************************************************************************)
CallArgsEmittedInto == request.op = "emitCallArgs" /\ "Args" \in DOMAIN request

(* The slots emitCallArgs appended, and of them the ones that hold the     *)
(* value of an argument expression.                                        *)
AppendedSlots == SubSeq(callArgs.args, Len(request.Args) + 1, Len(callArgs.args))

IsValueSlot(slot) == slot.Holds = "value"

ValueIndices == [i \in 1..Len(SelectSeq(AppendedSlots, IsValueSlot)) |-> SelectSeq(AppendedSlots, IsValueSlot)[i].Index]

(* The order of evaluation: the index the loop takes at each iteration. *)
EvaluationOrder == [I \in 1..Len(request.ArgRange) |-> EvaluationIndex(I, Len(request.ArgRange))]

RightToLeftABI == request.target.areArgsDestroyedLeftToRightInCallee

(* No argument is of a kind, and no parameter of a type, that emitCallArg  *)
(* or the object-size step gives up on.                                    *)
ArgsSupported == callArgs.fault \in {NoFault, "assert: MSABI NYI"}

\* C27: emitCallArgs evaluates the argument expressions left to right, and
\* right to left when the ABI destroys arguments left to right in the callee;
\* in both cases it completes, each expression is evaluated once, the
\* appended value slots are in source order, and the slots that were in the
\* list before are unchanged.
C27_EvaluationOrder ==
    (CallArgsEmittedInto /\ ArgsSupported) =>
        /\ callArgs.fault = NoFault
        /\ EvaluationOrder =
               [I \in 1..Len(request.ArgRange) |->
                   IF RightToLeftABI THEN Len(request.ArgRange) - I + 1 ELSE I]
        /\ ValueIndices = [i \in 1..Len(request.ArgRange) |-> i]
        /\ SubSeq(callArgs.args, 1, Len(request.Args)) = request.Args

(* On an ABI that destroys the arguments in the caller the claim holds. *)
LeftToRightEvaluation ==
    (CallArgsEmittedInto /\ ArgsSupported /\ ~RightToLeftABI) =>
        /\ callArgs.fault = NoFault
        /\ EvaluationOrder = [I \in 1..Len(request.ArgRange) |-> I]
        /\ ValueIndices = [i \in 1..Len(request.ArgRange) |-> i]
        /\ SubSeq(callArgs.args, 1, Len(request.Args)) = request.Args

LeftToRightEvaluated ==
    /\ CallArgsEmittedInto
    /\ ~RightToLeftABI
    /\ callArgs.fault = NoFault
    /\ Len(request.ArgRange) = 2
    /\ Len(request.Args) = 1
    /\ Len(callArgs.args) > 3

(* On an ABI that destroys the arguments left to right in the callee       *)
(* emitCallArgs stops at its assertion.                                    *)
RightToLeftStops ==
    (CallArgsEmittedInto /\ ArgsSupported /\ RightToLeftABI) =>
        callArgs.fault = "assert: MSABI NYI"

(***************************************************************************)
(* C28: the instance and chain flags of a member function's descriptor.    *)
(***************************************************************************)
ArrangedForInstanceMember ==
    /\ \/ ArrangedInstanceMethod
       \/ request.op \in {"arrangeCXXMethodCall", "arrangeCXXStructorDeclaration",
                          "arrangeCXXConstructorCall"}
    /\ arranged.fault = NoFault
    /\ arranged.FIs # {}

\* C28: every descriptor arranged for an instance member function, by
\* arrangeCXXMethodType (also reached from arrangeCXXMethodDeclaration),
\* arrangeCXXMethodCall, arrangeCXXStructorDeclaration or
\* arrangeCXXConstructorCall, has the instance-method flag set and the
\* chain-call flag clear.
C28_InstanceNeverChain ==
    ArrangedForInstanceMember =>
        \A FI \in arranged.FIs : FI.InstanceMethod /\ ~FI.ChainCall

(* The calls and the structor declarations are built with the              *)
(* instance-method option.                                                 *)
CallsAndStructorsInstance ==
    (ArrangedForInstanceMember /\ ~ArrangedInstanceMethod) =>
        \A FI \in arranged.FIs : FI.InstanceMethod /\ ~FI.ChainCall

MethodCallArrangedInstance ==
    /\ ArrangedForInstanceMember
    /\ request.op = "arrangeCXXMethodCall"
    /\ \E FI \in arranged.FIs : FI.InstanceMethod /\ ~FI.ChainCall

(* The declarations of methods are built with the chain-call option. *)
MethodDeclarationsChain ==
    ArrangedInstanceMethod =>
        \A FI \in arranged.FIs : ~FI.InstanceMethod /\ FI.ChainCall

(***************************************************************************)
(* C29: the function type GetFunctionType returns.                         *)
(***************************************************************************)
GetFunctionTypeCompleted ==
    /\ request.op = "GetFunctionType"
    /\ stack = <<>>
    /\ lowered.fault = NoFault
    /\ lowered.types # {}

(* The machine type of a source type whose conversion completes. *)
RECURSIVE ExpectedType(_)
ExpectedType(T) ==
    IF T \in {"Node", "A", "B"} THEN "!ty_" \o T
    ELSE IF T \in TypesWithFunctionBehind
    THEN "!cir.ptr<"
         \o RenderFuncType(
                [inputs |-> [i \in 1..Len(FunctionTypeBehind(T).ParamTypes) |->
                                ExpectedType(FunctionTypeBehind(T).ParamTypes[i])],
                 result |-> ExpectedType(FunctionTypeBehind(T).ReturnType),
                 varArg |-> FALSE])
         \o ">"
    ELSE convertTypeLeaf(T)

(* The number of arguments a descriptor requires. *)
RequiredCount(FI) ==
    IF FI.Required = RequiredArgs_All THEN Len(FI.ArgTypes) ELSE FI.Required

\* C29: the function type GetFunctionType returns for a descriptor has as
\* inputs the converted types of the descriptor's required arguments, in
\* order, and no input for an argument past the required count; it is
\* variadic exactly when the descriptor is; its result is the converted
\* return type, and the void type when the return type converts to no type.
C29_FunctionTypeOfDescriptor ==
    GetFunctionTypeCompleted =>
        \A FT \in lowered.types :
            /\ Len(FT.inputs) = RequiredCount(request.FI)
            /\ \A i \in 1..RequiredCount(request.FI) :
                   FT.inputs[i] = ExpectedType(request.FI.ArgTypes[i])
            /\ FT.varArg = (request.FI.Required # RequiredArgs_All)
            /\ FT.result = (IF ExpectedType(request.FI.ReturnType) = "null" THEN "!void"
                            ELSE ExpectedType(request.FI.ReturnType))

(* A variadic descriptor with an argument past the required one. *)
C29_Witness ==
    /\ GetFunctionTypeCompleted
    /\ request.FI.Required = 1
    /\ Len(request.FI.ArgTypes) = 2
    /\ \E FT \in lowered.types : Len(FT.inputs) = 1 /\ FT.varArg

(* A return type with no machine type. *)
C29_WitnessNoResultType ==
    /\ GetFunctionTypeCompleted
    /\ request.FI.ReturnType = "untyped"
    /\ \E FT \in lowered.types : FT.result = "!void"

(* A pointer to function among the required arguments. *)
C29_WitnessNested ==
    /\ GetFunctionTypeCompleted
    /\ request.FI.Required = RequiredArgs_All
    /\ request.FI.ArgTypes = <<"int", "fnptr<void(fnptr<int(int)>)>">>

====
